---- MODULE Spec2Model ----
(***************************************************************************)
(* Model of the lazy model loader of backend/models/loader.py: the three   *)
(* module-level slots (_lexical_model, _prosodic_model, _onnx_session),    *)
(* the three OrderedLocks that guard them, the per-thread held-lock lists  *)
(* and the three load functions, stepped at every access to shared state.  *)
(***************************************************************************)
EXTENDS Integers, Sequences, FiniteSets, TLC

(* ------------------------------ bounds -------------------------------- *)
NumThreads == 2
MaxCalls == 3
MaxDepth == 2

\* References in one pickle stream
MaxRefs == 3

\* Segments of one filepath
MaxSegs == 3

\* Requests (facade calls, health checks and the loads beside them) in one
\* behaviour
MaxRequests == 2

Threads == 1..NumThreads
NoThread == 0
\* Python's None in a slot or a local (a record, as every artifact is)
None == [kind |-> "None", id |-> 0, validated |-> FALSE]

(* ------------------------- program constants -------------------------- *)
Locks == {"_lexical_model_lock", "_prosodic_model_lock", "_onnx_session_lock"}

\* Priorities that put the encoder lock below the classifier lock
OrderEncoderFirst(l) ==
    CASE l = "_lexical_model_lock" -> 1
      [] l = "_prosodic_model_lock" -> 3
      [] l = "_onnx_session_lock" -> 2

\* OrderedLock.order of the three module-level locks
Order(l) ==
    CASE l = "_lexical_model_lock" -> 1
      [] l = "_prosodic_model_lock" -> 2
      [] l = "_onnx_session_lock" -> 3

Resources == {"lexical", "prosodic", "onnx"}

\* What a serialized-model file on disk can be when it is looked at:
\* absent, a valid estimator, a stream naming a type outside the allow-list,
\* an allow-listed object without predict_proba/predict, an estimator whose
\* `steps` attribute is not a list of pairs, or a malformed stream.
PickleKinds == {"missing", "valid", "untrusted", "nointerface", "badsteps", "corrupt"}
\* What the encoder-session file can be.
OnnxKinds == {"missing", "valid", "corrupt"}

FileKinds(r) == IF r = "onnx" THEN OnnxKinds ELSE PickleKinds

(* ------------------------------- state -------------------------------- *)
VARIABLES
    lexical_model,      \* _lexical_model
    prosodic_model,     \* _prosodic_model
    onnx_session,       \* _onnx_session
    onnx_available,     \* _onnx_available
    validation,         \* _ENABLE_LOCK_ORDERING_VALIDATION
    production,         \* FLASK_ENV == 'production', as the process was started
    lock,               \* owner of each OrderedLock's underlying threading.Lock
    held,               \* _thread_local.held_locks of each thread
    clean,              \* per resource: every look at its file so far found it valid
    fault,              \* per thread: its current call met a failure condition
    pc,                 \* position of each thread
    op,                 \* the load function each thread called
    model,              \* local `model` / `session` of each thread
    check1,             \* local prosodic_model_check of each thread
    result,             \* value being returned through the with-blocks
    ret,                \* outcome of each thread's last call
    ncalls,             \* calls made so far
    loads,              \* executions of each resource's load body
    publishes,          \* writes of a fresh artifact to each slot
    frames,             \* per thread: the with-blocks it is inside, outermost first
    pending,            \* per thread: the acquire() / release() call in progress
    request,            \* per thread: the lexical_predict / prosodic_predict call in progress
    answer,             \* per thread: what its last facade call returned
    invoked,            \* per thread: its last facade call called predict_proba
    health,             \* per thread: the 'models' object health_check is building
    call                \* the last call of a function without shared state: arguments, outcome

vars == <<lexical_model, prosodic_model, onnx_session, onnx_available,
          validation, production, lock, held, clean, fault, pc, op, model, check1, result,
          ret, ncalls, loads, publishes, frames, pending,
          request, answer, invoked, health, call>>

slots == <<lexical_model, prosodic_model, onnx_session>>
locking == <<lock, held>>
config == <<onnx_available, validation, production>>
locals == <<model, check1, result>>
api == <<frames, pending>>
facade == <<request, answer, invoked>>
http == <<health>>
pure == <<call>>
\* Every variable of the threads and of the module-level state
program == <<slots, config, locking, clean, fault, pc, op, locals, ret, ncalls,
             loads, publishes, api, facade, http>>

\* No acquire() or release() in progress
NoPending == [lock |-> "none", how |-> "none", message |-> <<>>]

\* predict_proba not called
NoOutcome == [kind |-> "none", exc |-> "none", shape |-> <<>>, nan |-> FALSE, tenths |-> 0]

\* No facade call in progress
NoRequest == [fn |-> "none", input |-> "none", outcome |-> NoOutcome]

\* Nothing returned by a facade call yet
NoAnswer == [returned |-> FALSE, raised |-> FALSE, tenths |-> 0, is_real |-> FALSE]

\* No call yet
NoCall == [fn |-> "none"]

\* No slot read by health_check yet
NoReport == [lexical |-> FALSE, prosodic |-> FALSE, wav2vec_onnx |-> FALSE]

Init ==
    /\ lexical_model = None
    /\ prosodic_model = None
    /\ onnx_session = None
    /\ onnx_available \in BOOLEAN
    /\ production \in BOOLEAN
    /\ validation = ~production
    /\ lock = [l \in Locks |-> NoThread]
    /\ held = [t \in Threads |-> <<>>]
    /\ clean = [r \in Resources |-> TRUE]
    /\ fault = [t \in Threads |-> FALSE]
    /\ pc = [t \in Threads |-> "idle"]
    /\ op = [t \in Threads |-> "none"]
    /\ model = [t \in Threads |-> None]
    /\ check1 = [t \in Threads |-> FALSE]
    /\ result = [t \in Threads |-> "none"]
    /\ ret = [t \in Threads |-> "none"]
    /\ ncalls = 0
    /\ loads = [r \in Resources |-> 0]
    /\ publishes = [r \in Resources |-> 0]
    /\ frames = [t \in Threads |-> <<>>]
    /\ pending = [t \in Threads |-> NoPending]
    /\ request = [t \in Threads |-> NoRequest]
    /\ answer = [t \in Threads |-> NoAnswer]
    /\ invoked = [t \in Threads |-> FALSE]
    /\ health = [t \in Threads |-> NoReport]
    /\ call = NoCall

(* ------------------- deserialization and validation ------------------- *)
\* Every exception class met below derives from Exception.
Exceptions == {"UnpicklingError", "FileNotFoundError", "EOFError", "TypeError",
               "RuntimeError", "ValueError", "IndexError", "AttributeError"}

\* secure_load_pickle on a file of the given kind: the name of the exception
\* it raises, or "object" when RestrictedUnpickler(f).load() returns.
SecureLoadPickle(kind) ==
    CASE kind = "missing" -> "FileNotFoundError"
      [] kind = "untrusted" -> "UnpicklingError"
      [] kind = "corrupt" -> "EOFError"
      [] OTHER -> "object"

\* The object a load produced: what it was read from, which execution of the
\* resource's load body made it, and whether validation has accepted it.
NewObject(kind, n) == [kind |-> kind, id |-> n, validated |-> FALSE]

\* The attributes an object of each kind exposes, of those that
\* validate_sklearn_model asks for
Attrs(kind) ==
    CASE kind \in {"valid", "badsteps"} -> {"predict_proba", "predict", "steps"}
      [] kind = "estimator" -> {"predict_proba", "predict"}
      [] kind = "probaonly" -> {"predict_proba"}
      [] kind = "predictonly" -> {"predict"}
      [] kind = "stepsonly" -> {"steps"}
      [] OTHER -> {}

HasAttr(m, a) == a \in Attrs(m.kind)

\* A validator that asks for predict alone
ValidateSklearnModelPredictOnly(m) ==
    IF ~HasAttr(m, "predict") THEN "false"
    ELSE IF HasAttr(m, "steps") /\ m.kind = "badsteps" THEN "raise"
    ELSE "true"

\* validate_sklearn_model: "true", "false", or "raise" when walking a
\* malformed `steps` attribute raises.
ValidateSklearnModel(m) ==
    IF ~HasAttr(m, "predict_proba") THEN "false"
    ELSE IF ~HasAttr(m, "predict") THEN "false"
    ELSE IF HasAttr(m, "steps") /\ m.kind = "badsteps" THEN "raise"
    ELSE "true"

\* A try closed by `except pickle.UnpicklingError` alone
LoadHandlerUnpicklingOnly(exc) ==
    IF exc = "UnpicklingError" THEN "false" ELSE "raise"

\* The except clauses that close the try of a load function: what the
\* function returns for an exception raised inside the try.
LoadHandler(exc) ==
    IF exc = "UnpicklingError" THEN "false"
    ELSE IF exc \in Exceptions THEN "false"
    ELSE "raise"

\* ort.InferenceSession(ONNX_MODEL_PATH): "session" or the exception raised.
InferenceSession(kind) ==
    IF kind = "valid" THEN "session" ELSE "RuntimeError"

\* An except clause that leaves a failure marker in the slot
OnnxExceptPoison == [kind |-> "failed", id |-> 0, validated |-> FALSE]

\* What the except clause of load_onnx_model stores in _onnx_session.
OnnxExceptValue == None

(* ----------------------------- OrderedLock ---------------------------- *)
RECURSIVE RemoveFirst(_, _)
\* list.remove(x): drops the first occurrence of x
RemoveFirst(s, x) ==
    IF s = <<>> THEN <<>>
    ELSE IF Head(s) = x THEN Tail(s)
    ELSE <<Head(s)>> \o RemoveFirst(Tail(s), x)

InList(s, x) == \E i \in DOMAIN s : s[i] = x

\* A check that does not look at the flag
ValidateLockOrderAlways(t, l) ==
    \E i \in DOMAIN held[t] : Order(held[t][i]) > Order(l)

\* A check that looks at the first held lock only
ValidateLockOrderFirstOnly(t, l) ==
    /\ validation
    /\ held[t] # <<>>
    /\ Order(held[t][1]) > Order(l)

\* _validate_lock_order raises LockOrderingError
ValidateLockOrderRaises(t, l) ==
    /\ validation
    /\ \E i \in DOMAIN held[t] : Order(held[t][i]) > Order(l)

\* An acquire() that appends to one list shared by all threads
AcquireSharedList(t, l) ==
    /\ lock[l] = NoThread
    /\ lock' = [lock EXCEPT ![l] = t]
    /\ held' = IF validation THEN [u \in Threads |-> Append(held[u], l)] ELSE held

\* An acquire() that puts the lock at the front of the thread's list
AcquireInsertsFirst(t, l) ==
    /\ lock[l] = NoThread
    /\ lock' = [lock EXCEPT ![l] = t]
    /\ held' = IF validation THEN [held EXCEPT ![t] = <<l>> \o @] ELSE held

\* acquire() past validation: blocks until the primitive is free, takes it,
\* and appends the lock to the thread's list when validation is on.
Acquire(t, l) ==
    /\ lock[l] = NoThread
    /\ lock' = [lock EXCEPT ![l] = t]
    /\ held' = IF validation THEN [held EXCEPT ![t] = Append(@, l)] ELSE held

\* A release() that leaves the thread's list as it is
ReleaseKeepsEntry(t, l) ==
    /\ lock' = [lock EXCEPT ![l] = NoThread]
    /\ held' = held

\* release(): frees the primitive and removes the lock from the list.
Release(t, l) ==
    /\ lock' = [lock EXCEPT ![l] = NoThread]
    /\ held' = IF validation /\ InList(held[t], l)
               THEN [held EXCEPT ![t] = RemoveFirst(@, l)]
               ELSE held

(* ----------------------------- the files ------------------------------ *)
\* os.path.exists on a file that is of kind k when looked at
PathExists(k) == k # "missing"

\* Thread t looks at resource r's file, or at the runtime's availability:
\* ok says whether it found what a successful load needs.
Observe(t, r, ok) ==
    /\ clean' = [clean EXCEPT ![r] = @ /\ ok]
    /\ fault' = [fault EXCEPT ![t] = @ \/ ~ok]

(* ------------------------- calls and returns -------------------------- *)
Entry(f) ==
    CASE f = "lexical" -> "lex_fast"
      [] f = "onnx" -> "onnx_fast"
      [] f = "prosodic" -> "pro_fast1"

\* A thread calls one of the three load functions.
Call(t, f) ==
    /\ pc[t] = "idle"
    /\ ncalls < MaxCalls
    /\ ncalls' = ncalls + 1
    /\ pc' = [pc EXCEPT ![t] = Entry(f)]
    /\ op' = [op EXCEPT ![t] = f]
    /\ ret' = [ret EXCEPT ![t] = "none"]
    /\ fault' = [fault EXCEPT ![t] = FALSE]
    /\ UNCHANGED <<slots, config, api, facade, http, pure, locking, locals, clean, loads, publishes>>

\* The outermost load function returns v (or raises) to its caller, which
\* is the facade when a facade call is in progress; its locals are gone.
ReturnToCaller(t, v) ==
    /\ pc' = [pc EXCEPT ![t] = IF request[t].fn = "none" THEN "idle" ELSE "predict"]
    /\ ret' = [ret EXCEPT ![t] = v]
    /\ model' = [model EXCEPT ![t] = None]
    /\ check1' = [check1 EXCEPT ![t] = FALSE]
    /\ result' = [result EXCEPT ![t] = "none"]

\* load_onnx_model returns v: to the thread's caller, or into
\* load_prosodic_models at line 739.
ReturnFromOnnx(t, v) ==
    IF op[t] = "onnx"
    THEN ReturnToCaller(t, v)
    ELSE /\ pc' = [pc EXCEPT ![t] = IF v = "raise" THEN "pro_exit" ELSE "pro_verify"]
         /\ result' = [result EXCEPT ![t] = v]
         /\ model' = [model EXCEPT ![t] = None]
         /\ UNCHANGED <<ret, check1>>

(* ------------------------- load_lexical_model ------------------------- *)
\* load_lexical_model without the unlocked fast path
LexFastAlwaysLocks(t) ==
    /\ pc[t] = "lex_fast"
    /\ pc' = [pc EXCEPT ![t] = "lex_acquire"]
    /\ UNCHANGED <<slots, config, api, facade, http, pure, locking, clean, fault, op, locals, ret,
                   ncalls, loads, publishes>>

LexFast(t) ==
    /\ pc[t] = "lex_fast"
    /\ IF lexical_model # None
       THEN ReturnToCaller(t, "true")
       ELSE /\ pc' = [pc EXCEPT ![t] = "lex_acquire"]
            /\ UNCHANGED <<ret, locals>>
    /\ UNCHANGED <<slots, config, api, facade, http, pure, locking, clean, fault, op,
                   ncalls, loads, publishes>>

\* A load_lexical_model that goes on to the re-check without the lock
LexAcquireNoLock(t) ==
    /\ pc[t] = "lex_acquire"
    /\ pc' = [pc EXCEPT ![t] = "lex_check"]
    /\ UNCHANGED <<slots, config, api, facade, http, pure, locking, clean, fault, op,
                   locals, ret, ncalls, loads, publishes>>

\* `with _lexical_model_lock:` (line 604): acquire() validates, then blocks
LexAcquire(t) ==
    /\ pc[t] = "lex_acquire"
    /\ IF ValidateLockOrderRaises(t, "_lexical_model_lock")
       THEN /\ ReturnToCaller(t, "raise")
            /\ UNCHANGED locking
       ELSE /\ Acquire(t, "_lexical_model_lock")
            /\ pc' = [pc EXCEPT ![t] = "lex_check"]
            /\ UNCHANGED <<ret, locals>>
    /\ UNCHANGED <<slots, config, api, facade, http, pure, clean, fault, op,
                   ncalls, loads, publishes>>

\* load_lexical_model without the re-check under the lock
LexCheckNoRecheck(t) ==
    /\ pc[t] = "lex_check"
    /\ pc' = [pc EXCEPT ![t] = "lex_exists"]
    /\ UNCHANGED <<slots, config, api, facade, http, pure, locking, clean, fault, op, model, check1, result,
                   ret, ncalls, loads, publishes>>

LexCheck(t) ==
    /\ pc[t] = "lex_check"
    /\ IF lexical_model # None
       THEN /\ result' = [result EXCEPT ![t] = "true"]
            /\ pc' = [pc EXCEPT ![t] = "lex_exit"]
       ELSE /\ pc' = [pc EXCEPT ![t] = "lex_exists"]
            /\ UNCHANGED result
    /\ UNCHANGED <<slots, config, api, facade, http, pure, locking, clean, fault, op, model, check1, ret,
                   ncalls, loads, publishes>>

LexExists(t) ==
    /\ pc[t] = "lex_exists"
    /\ \E k \in FileKinds("lexical") :
         /\ Observe(t, "lexical", PathExists(k))
         /\ IF ~PathExists(k)
            THEN /\ result' = [result EXCEPT ![t] = "false"]
                 /\ pc' = [pc EXCEPT ![t] = "lex_exit"]
            ELSE /\ pc' = [pc EXCEPT ![t] = "lex_load"]
                 /\ UNCHANGED result
    /\ UNCHANGED <<slots, config, api, facade, http, pure, locking, op, model, check1, ret,
                   ncalls, loads, publishes>>

LexLoad(t) ==
    /\ pc[t] = "lex_load"
    /\ loads' = [loads EXCEPT !["lexical"] = @ + 1]
    /\ \E k \in FileKinds("lexical") :
         LET r == SecureLoadPickle(k) IN
         /\ Observe(t, "lexical", k = "valid")
         /\ IF r = "object"
            THEN /\ model' = [model EXCEPT ![t] = NewObject(k, loads'["lexical"])]
                 /\ pc' = [pc EXCEPT ![t] = "lex_validate"]
                 /\ UNCHANGED result
            ELSE /\ result' = [result EXCEPT ![t] = LoadHandler(r)]
                 /\ pc' = [pc EXCEPT ![t] = "lex_exit"]
                 /\ UNCHANGED model
    /\ UNCHANGED <<slots, config, api, facade, http, pure, locking, op, check1, ret,
                   ncalls, publishes>>

\* load_lexical_model publishing whatever was deserialized
LexValidateSkipped(t) ==
    /\ pc[t] = "lex_validate"
    /\ pc' = [pc EXCEPT ![t] = "lex_publish"]
    /\ UNCHANGED <<slots, config, api, facade, http, pure, locking, clean, fault, op, model, check1, result,
                   ret, ncalls, loads, publishes>>

LexValidate(t) ==
    /\ pc[t] = "lex_validate"
    /\ LET v == ValidateSklearnModel(model[t]) IN
       IF v = "true"
       THEN /\ model' = [model EXCEPT ![t].validated = TRUE]
            /\ pc' = [pc EXCEPT ![t] = "lex_publish"]
            /\ UNCHANGED result
       ELSE /\ result' = [result EXCEPT ![t] =
                            IF v = "false" THEN "false" ELSE LoadHandler("TypeError")]
            /\ pc' = [pc EXCEPT ![t] = "lex_exit"]
            /\ UNCHANGED model
    /\ UNCHANGED <<slots, config, api, facade, http, pure, locking, clean, fault, op, check1, ret,
                   ncalls, loads, publishes>>

LexPublish(t) ==
    /\ pc[t] = "lex_publish"
    /\ lexical_model' = model[t]
    /\ publishes' = [publishes EXCEPT !["lexical"] = @ + 1]
    /\ result' = [result EXCEPT ![t] = "true"]
    /\ pc' = [pc EXCEPT ![t] = "lex_exit"]
    /\ UNCHANGED <<prosodic_model, onnx_session, config, api, facade, http, pure, locking, clean, fault, op,
                   model, check1, ret, ncalls, loads>>

\* __exit__ of `with _lexical_model_lock`, then the return
LexExit(t) ==
    /\ pc[t] = "lex_exit"
    /\ Release(t, "_lexical_model_lock")
    /\ ReturnToCaller(t, result[t])
    /\ UNCHANGED <<slots, config, api, facade, http, pure, clean, fault, op, ncalls, loads, publishes>>

(* --------------------------- load_onnx_model -------------------------- *)
\* load_onnx_model without the unlocked fast path
OnnxFastAlwaysLocks(t) ==
    /\ pc[t] = "onnx_fast"
    /\ pc' = [pc EXCEPT ![t] = "onnx_acquire"]
    /\ UNCHANGED <<slots, config, api, facade, http, pure, locking, clean, fault, op,
                   locals, ret, ncalls, loads, publishes>>

\* Lines 650-652: the fast path, read without the lock
OnnxFast(t) ==
    /\ pc[t] = "onnx_fast"
    /\ IF onnx_session # None
       THEN ReturnFromOnnx(t, "true")
       ELSE /\ pc' = [pc EXCEPT ![t] = "onnx_acquire"]
            /\ UNCHANGED <<ret, locals>>
    /\ UNCHANGED <<slots, config, api, facade, http, pure, locking, clean, fault, op,
                   ncalls, loads, publishes>>

\* A load_onnx_model that takes the encoder lock only when it is called
\* directly, relying on the classifier lock of load_prosodic_models otherwise
OnnxAcquireDirectOnly(t) ==
    /\ pc[t] = "onnx_acquire"
    /\ IF op[t] = "prosodic"
       THEN /\ pc' = [pc EXCEPT ![t] = "onnx_check"]
            /\ UNCHANGED <<locking, ret, locals>>
       ELSE /\ Acquire(t, "_onnx_session_lock")
            /\ pc' = [pc EXCEPT ![t] = "onnx_check"]
            /\ UNCHANGED <<ret, locals>>
    /\ UNCHANGED <<slots, config, api, facade, http, pure, clean, fault, op,
                   ncalls, loads, publishes>>

\* `with _onnx_session_lock:` (line 661)
OnnxAcquire(t) ==
    /\ pc[t] = "onnx_acquire"
    /\ IF ValidateLockOrderRaises(t, "_onnx_session_lock")
       THEN /\ ReturnFromOnnx(t, "raise")
            /\ UNCHANGED locking
       ELSE /\ Acquire(t, "_onnx_session_lock")
            /\ pc' = [pc EXCEPT ![t] = "onnx_check"]
            /\ UNCHANGED <<ret, locals>>
    /\ UNCHANGED <<slots, config, api, facade, http, pure, clean, fault, op,
                   ncalls, loads, publishes>>

\* load_onnx_model without the re-check under the lock
OnnxCheckNoRecheck(t) ==
    /\ pc[t] = "onnx_check"
    /\ IF ~onnx_available
       THEN /\ result' = [result EXCEPT ![t] = "false"]
            /\ pc' = [pc EXCEPT ![t] = "onnx_exit"]
            /\ Observe(t, "onnx", FALSE)
       ELSE /\ pc' = [pc EXCEPT ![t] = "onnx_exists"]
            /\ UNCHANGED <<result, clean, fault>>
    /\ UNCHANGED <<slots, config, api, facade, http, pure, locking, op, model, check1, ret,
                   ncalls, loads, publishes>>

OnnxCheck(t) ==
    /\ pc[t] = "onnx_check"
    /\ IF onnx_session # None
       THEN /\ result' = [result EXCEPT ![t] = "true"]
            /\ pc' = [pc EXCEPT ![t] = "onnx_exit"]
            /\ UNCHANGED <<clean, fault>>
       ELSE IF ~onnx_available
       THEN /\ result' = [result EXCEPT ![t] = "false"]
            /\ pc' = [pc EXCEPT ![t] = "onnx_exit"]
            /\ Observe(t, "onnx", FALSE)
       ELSE /\ pc' = [pc EXCEPT ![t] = "onnx_exists"]
            /\ UNCHANGED <<result, clean, fault>>
    /\ UNCHANGED <<slots, config, api, facade, http, pure, locking, op, model, check1, ret,
                   ncalls, loads, publishes>>

OnnxExists(t) ==
    /\ pc[t] = "onnx_exists"
    /\ \E k \in FileKinds("onnx") :
         /\ Observe(t, "onnx", PathExists(k))
         /\ IF ~PathExists(k)
            THEN /\ result' = [result EXCEPT ![t] = "false"]
                 /\ pc' = [pc EXCEPT ![t] = "onnx_exit"]
            ELSE /\ pc' = [pc EXCEPT ![t] = "onnx_create"]
                 /\ UNCHANGED result
    /\ UNCHANGED <<slots, config, api, facade, http, pure, locking, op, model, check1, ret,
                   ncalls, loads, publishes>>

OnnxCreate(t) ==
    /\ pc[t] = "onnx_create"
    /\ loads' = [loads EXCEPT !["onnx"] = @ + 1]
    /\ \E k \in FileKinds("onnx") :
         LET r == InferenceSession(k)
             session == IF r = "session"
                        THEN [NewObject(k, loads'["onnx"]) EXCEPT !.validated = TRUE]
                        ELSE None
         IN
         /\ Observe(t, "onnx", k = "valid")
         /\ IF r # "session"
            THEN /\ pc' = [pc EXCEPT ![t] = "onnx_except"]
                 /\ UNCHANGED <<model, result>>
            ELSE IF session = None
            THEN /\ result' = [result EXCEPT ![t] = "false"]
                 /\ pc' = [pc EXCEPT ![t] = "onnx_exit"]
                 /\ UNCHANGED model
            ELSE /\ model' = [model EXCEPT ![t] = session]
                 /\ pc' = [pc EXCEPT ![t] = "onnx_publish"]
                 /\ UNCHANGED result
    /\ UNCHANGED <<slots, config, api, facade, http, pure, locking, op, check1, ret,
                   ncalls, publishes>>

OnnxPublish(t) ==
    /\ pc[t] = "onnx_publish"
    /\ onnx_session' = model[t]
    /\ publishes' = [publishes EXCEPT !["onnx"] = @ + 1]
    /\ result' = [result EXCEPT ![t] = "true"]
    /\ pc' = [pc EXCEPT ![t] = "onnx_exit"]
    /\ UNCHANGED <<lexical_model, prosodic_model, config, api, facade, http, pure, locking, clean, fault, op,
                   model, check1, ret, ncalls, loads>>

\* except Exception: _onnx_session = None; return False
OnnxExcept(t) ==
    /\ pc[t] = "onnx_except"
    /\ onnx_session' = OnnxExceptValue
    /\ result' = [result EXCEPT ![t] = "false"]
    /\ pc' = [pc EXCEPT ![t] = "onnx_exit"]
    /\ UNCHANGED <<lexical_model, prosodic_model, config, api, facade, http, pure, locking, clean, fault, op,
                   model, check1, ret, ncalls, loads, publishes>>

\* A load_onnx_model that releases by hand, on the success path only
OnnxExitLeaksOnFailure(t) ==
    /\ pc[t] = "onnx_exit"
    /\ IF result[t] = "true"
       THEN Release(t, "_onnx_session_lock")
       ELSE UNCHANGED locking
    /\ ReturnFromOnnx(t, result[t])
    /\ UNCHANGED <<slots, config, api, facade, http, pure, clean, fault, op, ncalls, loads, publishes>>

\* __exit__ of `with _onnx_session_lock`, then the return
OnnxExit(t) ==
    /\ pc[t] = "onnx_exit"
    /\ Release(t, "_onnx_session_lock")
    /\ ReturnFromOnnx(t, result[t])
    /\ UNCHANGED <<slots, config, api, facade, http, pure, clean, fault, op, ncalls, loads, publishes>>

(* ------------------------ load_prosodic_models ------------------------ *)
\* prosodic_model_check = _prosodic_model is not None
ProFast1(t) ==
    /\ pc[t] = "pro_fast1"
    /\ check1' = [check1 EXCEPT ![t] = (prosodic_model # None)]
    /\ pc' = [pc EXCEPT ![t] = "pro_fast2"]
    /\ UNCHANGED <<slots, config, api, facade, http, pure, locking, clean, fault, op, model, result, ret,
                   ncalls, loads, publishes>>

\* A fast path that tests the encoder session alone
ProFast2EncoderOnly(t) ==
    /\ pc[t] = "pro_fast2"
    /\ IF onnx_session # None
       THEN ReturnToCaller(t, "true")
       ELSE /\ pc' = [pc EXCEPT ![t] = "pro_acquire"]
            /\ UNCHANGED <<ret, locals>>
    /\ UNCHANGED <<slots, config, api, facade, http, pure, locking, clean, fault, op,
                   ncalls, loads, publishes>>

\* onnx_session_check = _onnx_session is not None, and the fast-path test
ProFast2(t) ==
    /\ pc[t] = "pro_fast2"
    /\ IF check1[t] /\ onnx_session # None
       THEN ReturnToCaller(t, "true")
       ELSE /\ pc' = [pc EXCEPT ![t] = "pro_acquire"]
            /\ UNCHANGED <<ret, locals>>
    /\ UNCHANGED <<slots, config, api, facade, http, pure, locking, clean, fault, op,
                   ncalls, loads, publishes>>

ProAcquire(t) ==
    /\ pc[t] = "pro_acquire"
    /\ IF ValidateLockOrderRaises(t, "_prosodic_model_lock")
       THEN /\ ReturnToCaller(t, "raise")
            /\ UNCHANGED locking
       ELSE /\ Acquire(t, "_prosodic_model_lock")
            /\ pc' = [pc EXCEPT ![t] = "pro_check1"]
            /\ UNCHANGED <<ret, locals>>
    /\ UNCHANGED <<slots, config, api, facade, http, pure, clean, fault, op,
                   ncalls, loads, publishes>>

\* load_prosodic_models without the re-check under the classifier lock
ProCheckNoRecheck(t) ==
    /\ pc[t] \in {"pro_check1", "pro_check2"}
    /\ pc' = [pc EXCEPT ![t] = "onnx_fast"]
    /\ UNCHANGED <<slots, config, api, facade, http, pure, locking, clean, fault, op, model, check1, result,
                   ret, ncalls, loads, publishes>>

\* The if / elif under the classifier lock (lines 726-731). Each test reads
\* _onnx_session once, so the elif is a step of its own.
ProCheck(t) ==
    /\ pc[t] \in {"pro_check1", "pro_check2"}
    /\ IF pc[t] = "pro_check1"
       THEN IF prosodic_model # None /\ onnx_session # None
            THEN /\ result' = [result EXCEPT ![t] = "true"]
                 /\ pc' = [pc EXCEPT ![t] = "pro_exit"]
                 /\ UNCHANGED prosodic_model
            ELSE /\ pc' = [pc EXCEPT ![t] =
                             IF prosodic_model # None THEN "pro_check2" ELSE "onnx_fast"]
                 /\ UNCHANGED <<result, prosodic_model>>
       ELSE /\ prosodic_model' =
                   IF prosodic_model # None /\ onnx_session = None
                   THEN None ELSE prosodic_model
            /\ pc' = [pc EXCEPT ![t] = "onnx_fast"]
            /\ UNCHANGED result
    /\ UNCHANGED <<lexical_model, onnx_session, config, api, facade, http, pure, locking, clean, fault, op,
                   model, check1, ret, ncalls, loads, publishes>>

\* load_prosodic_models going on to the classifier whatever load_onnx_model
\* returned and whatever the encoder slot holds
ProVerifyIgnoresEncoder(t) ==
    /\ pc[t] = "pro_verify"
    /\ pc' = [pc EXCEPT ![t] = "pro_exists"]
    /\ UNCHANGED <<slots, config, api, facade, http, pure, locking, clean, fault, op, model, check1, result,
                   ret, ncalls, loads, publishes>>

\* Lines 739-748: the result of load_onnx_model, then the re-read of the slot
ProVerify(t) ==
    /\ pc[t] = "pro_verify"
    /\ IF result[t] # "true"
       THEN /\ result' = [result EXCEPT ![t] = "false"]
            /\ pc' = [pc EXCEPT ![t] = "pro_exit"]
       ELSE IF onnx_session = None
       THEN /\ result' = [result EXCEPT ![t] = "false"]
            /\ pc' = [pc EXCEPT ![t] = "pro_exit"]
       ELSE /\ pc' = [pc EXCEPT ![t] = "pro_exists"]
            /\ UNCHANGED result
    /\ UNCHANGED <<slots, config, api, facade, http, pure, locking, clean, fault, op, model, check1, ret,
                   ncalls, loads, publishes>>

ProExists(t) ==
    /\ pc[t] = "pro_exists"
    /\ \E k \in FileKinds("prosodic") :
         /\ Observe(t, "prosodic", PathExists(k))
         /\ IF ~PathExists(k)
            THEN /\ result' = [result EXCEPT ![t] = "false"]
                 /\ pc' = [pc EXCEPT ![t] = "pro_exit"]
            ELSE /\ pc' = [pc EXCEPT ![t] = "pro_load"]
                 /\ UNCHANGED result
    /\ UNCHANGED <<slots, config, api, facade, http, pure, locking, op, model, check1, ret,
                   ncalls, loads, publishes>>

ProLoad(t) ==
    /\ pc[t] = "pro_load"
    /\ loads' = [loads EXCEPT !["prosodic"] = @ + 1]
    /\ \E k \in FileKinds("prosodic") :
         LET r == SecureLoadPickle(k) IN
         /\ Observe(t, "prosodic", k = "valid")
         /\ IF r = "object"
            THEN /\ model' = [model EXCEPT ![t] = NewObject(k, loads'["prosodic"])]
                 /\ pc' = [pc EXCEPT ![t] = "pro_validate"]
                 /\ UNCHANGED result
            ELSE /\ result' = [result EXCEPT ![t] = LoadHandler(r)]
                 /\ pc' = [pc EXCEPT ![t] = "pro_exit"]
                 /\ UNCHANGED model
    /\ UNCHANGED <<slots, config, api, facade, http, pure, locking, op, check1, ret,
                   ncalls, publishes>>

ProValidate(t) ==
    /\ pc[t] = "pro_validate"
    /\ LET v == ValidateSklearnModel(model[t]) IN
       IF v = "true"
       THEN /\ model' = [model EXCEPT ![t].validated = TRUE]
            /\ pc' = [pc EXCEPT ![t] = "pro_publish"]
            /\ UNCHANGED result
       ELSE /\ result' = [result EXCEPT ![t] =
                            IF v = "false" THEN "false" ELSE LoadHandler("TypeError")]
            /\ pc' = [pc EXCEPT ![t] = "pro_exit"]
            /\ UNCHANGED model
    /\ UNCHANGED <<slots, config, api, facade, http, pure, locking, clean, fault, op, check1, ret,
                   ncalls, loads, publishes>>

\* The assignment at line 765 binding a local name (no `global` declaration)
ProPublishLocalOnly(t) ==
    /\ pc[t] = "pro_publish"
    /\ result' = [result EXCEPT ![t] = "true"]
    /\ pc' = [pc EXCEPT ![t] = "pro_exit"]
    /\ UNCHANGED <<slots, config, api, facade, http, pure, locking, clean, fault, op,
                   model, check1, ret, ncalls, loads, publishes>>

ProPublish(t) ==
    /\ pc[t] = "pro_publish"
    /\ prosodic_model' = model[t]
    /\ publishes' = [publishes EXCEPT !["prosodic"] = @ + 1]
    /\ result' = [result EXCEPT ![t] = "true"]
    /\ pc' = [pc EXCEPT ![t] = "pro_exit"]
    /\ UNCHANGED <<lexical_model, onnx_session, config, api, facade, http, pure, locking, clean, fault, op,
                   model, check1, ret, ncalls, loads>>

\* A load_prosodic_models that releases by hand before its last return
\* only, and not on the early returns
ProExitLeaksOnEarlyReturn(t) ==
    /\ pc[t] = "pro_exit"
    /\ IF result[t] = "true"
       THEN Release(t, "_prosodic_model_lock")
       ELSE UNCHANGED locking
    /\ ReturnToCaller(t, result[t])
    /\ UNCHANGED <<slots, config, api, facade, http, pure, clean, fault, op, ncalls, loads, publishes>>

\* __exit__ of `with _prosodic_model_lock`, then the return (or the re-raise)
ProExit(t) ==
    /\ pc[t] = "pro_exit"
    /\ Release(t, "_prosodic_model_lock")
    /\ ReturnToCaller(t, result[t])
    /\ UNCHANGED <<slots, config, api, facade, http, pure, clean, fault, op, ncalls, loads, publishes>>

(* ------------------- a caller that holds one lock --------------------- *)
\* `with lock:` entered directly by a thread, as the lock tests do
HoldAcquire(t, l) ==
    /\ pc[t] = "idle"
    /\ ncalls < MaxCalls
    /\ ~ValidateLockOrderRaises(t, l)
    /\ Acquire(t, l)
    /\ ncalls' = ncalls + 1
    /\ pc' = [pc EXCEPT ![t] = "holding"]
    /\ op' = [op EXCEPT ![t] = "hold"]
    /\ ret' = [ret EXCEPT ![t] = "none"]
    /\ UNCHANGED <<slots, config, api, facade, http, pure, clean, fault, model, check1, result,
                   loads, publishes>>

HoldRelease(t) ==
    /\ pc[t] = "holding"
    /\ Release(t, CHOOSE l \in Locks : lock[l] = t)
    /\ pc' = [pc EXCEPT ![t] = "idle"]
    /\ UNCHANGED <<slots, config, api, facade, http, pure, clean, fault, op, model, check1, result, ret,
                   ncalls, loads, publishes>>

(* --------------------------- specifications --------------------------- *)
\* The steps inside the three load functions
LoadStep(t) ==
    \/ LexFast(t) \/ LexAcquire(t) \/ LexCheck(t) \/ LexExists(t)
    \/ LexLoad(t) \/ LexValidate(t) \/ LexPublish(t) \/ LexExit(t)
    \/ OnnxFast(t) \/ OnnxAcquire(t) \/ OnnxCheck(t) \/ OnnxExists(t)
    \/ OnnxCreate(t) \/ OnnxPublish(t) \/ OnnxExcept(t) \/ OnnxExit(t)
    \/ ProFast1(t) \/ ProFast2(t) \/ ProAcquire(t) \/ ProCheck(t)
    \/ ProVerify(t) \/ ProExists(t) \/ ProLoad(t) \/ ProValidate(t)
    \/ ProPublish(t) \/ ProExit(t)

Step(t) ==
    \/ \E f \in {"lexical", "onnx", "prosodic"} : Call(t, f)
    \/ LoadStep(t)
    \/ \E l \in Locks : HoldAcquire(t, l)
    \/ HoldRelease(t)

Next == \E t \in Threads : Step(t)

Spec == Init /\ [][Next]_vars

\* A thread that is inside a call, or holds a lock, is scheduled again.
Fairness == \A t \in Threads : WF_vars(pc[t] # "idle" /\ Step(t))

FairSpec == Spec /\ Fairness

(* ------------------------- the inference facade ----------------------- *)
\* What a facade function is given, as far as its first lines look at it:
\* lexical_predict tells a str from anything else at once, prosodic_predict
\* takes its argument unread into the call of the load function.
Arguments(fn) == IF fn = "lexical_predict" THEN {"nonstring", "str"} ELSE {"object"}

\* What the checks inside the try find in the argument, which no one changes
\* in between. A str is empty once stripped or a text. An object is not an
\* ndarray, an ndarray of another shape than (768,), or a (768,) ndarray:
\* of dtype float32; of another number dtype (float64, int64);
\* of a dtype that is no number type with elements astype(np.float32)
\* converts (bool, str of digits); of such a dtype with elements it raises
\* on (other str, None).
Inputs(fn) ==
    IF fn = "lexical_predict" THEN {"blank", "text"}
    ELSE {"notarray", "badshape", "float32", "number", "coercible",
          "unconvertible"}

\* The load function a facade function calls
Loads(fn) == IF fn = "lexical_predict" THEN "lexical" ELSE "prosodic"

\* proba[0][1], in tenths: below the range, its two ends, above
ScoreValues == {0 - 1, 0, 10, 11}

Array(shape, nan, tenths) ==
    [kind |-> "array", exc |-> "none", shape |-> shape, nan |-> nan, tenths |-> tenths]

\* What model.predict_proba may do: return an array of shape (1, 2) whose
\* class-1 entry is a number, NaN or something float() raises on, an array
\* of another shape, an object without a shape, or raise.
PredictProbaOutcomes ==
    {Array(<<1, 2>>, FALSE, v) : v \in ScoreValues}
    \cup {Array(<<1, 2>>, TRUE, 0)}
    \cup {[Array(<<1, 2>>, FALSE, 0) EXCEPT !.exc = "TypeError"]}
    \cup {Array(sh, FALSE, 0) : sh \in {<<1, 3>>, <<2>>}}
    \cup {[NoOutcome EXCEPT !.kind = "noshape"]}
    \cup {[NoOutcome EXCEPT !.kind = "raise", !.exc = e] :
             e \in {"ValueError", "AttributeError", "RuntimeError"}}

\* A facade function returns (score, is_real)
Result(tenths, is_real) ==
    [returned |-> TRUE, raised |-> FALSE, tenths |-> tenths, is_real |-> is_real]

\* An exception leaves the facade function
Raised == [returned |-> FALSE, raised |-> TRUE, tenths |-> 0, is_real |-> FALSE]

\* return fallback_score, False
Fallback == Result(5, FALSE)

\* Handlers that name the expected exceptions only
PredictHandlerExpectedOnly(exc) ==
    IF exc \in {"ValueError", "IndexError", "AttributeError"} THEN Fallback
    ELSE Raised

\* The two except clauses of a facade function: both log and fall through
\* to the fallback return.
PredictHandler(exc) ==
    IF exc \in {"ValueError", "IndexError", "AttributeError"} THEN Fallback
    ELSE IF exc \in Exceptions THEN Fallback
    ELSE Raised

\* The same without the test of the embedding's shape
InputCheckAnyShape(fn, input) ==
    IF fn = "lexical_predict"
    THEN IF input = "blank" THEN "return" ELSE "ok"
    ELSE IF input = "notarray" THEN "ValueError"
    ELSE IF input = "unconvertible" THEN "ValueError"
    ELSE "ok"

\* The checks of the input inside the try: "ok", "return" (the early
\* fallback return for a blank text) or the exception raised. The dtype is
\* not tested: what is not float32 goes through astype(np.float32), which
\* converts or raises.
InputCheck(fn, input) ==
    IF fn = "lexical_predict"
    THEN IF input = "blank" THEN "return" ELSE "ok"
    ELSE IF input \in {"notarray", "badshape"} THEN "ValueError"
    ELSE IF input = "unconvertible" THEN "ValueError"
    ELSE "ok"

\* 0.0 <= score <= 1.0, false of NaN
InRange(o) == ~o.nan /\ 0 <= o.tenths /\ o.tenths <= 10

\* The same without the check of the shape
InterpretAnyShape(o) ==
    IF o.kind = "raise" THEN PredictHandler(o.exc)
    ELSE IF o.kind = "noshape" THEN PredictHandler("AttributeError")
    ELSE IF o.exc # "none" THEN PredictHandler(o.exc)
    ELSE IF ~InRange(o) THEN PredictHandler("ValueError")
    ELSE Result(o.tenths, TRUE)

\* From the return of predict_proba to the return of the facade function
Interpret(o) ==
    IF o.kind = "raise" THEN PredictHandler(o.exc)
    ELSE IF o.kind = "noshape" THEN PredictHandler("AttributeError")
    ELSE IF o.shape # <<1, 2>> THEN PredictHandler("ValueError")
    ELSE IF o.exc # "none" THEN PredictHandler(o.exc)
    ELSE IF ~InRange(o) THEN PredictHandler("ValueError")
    ELSE Result(o.tenths, TRUE)

\* lexical_predict(text) / prosodic_predict(embedding) up to the call of the
\* load function; lexical_predict first rejects what is not a str.
PredictCall(t, fn, arg) ==
    /\ pc[t] = "idle"
    /\ ncalls < MaxRequests
    /\ ncalls' = ncalls + 1
    /\ request' = [request EXCEPT ![t] =
                      [fn |-> fn, input |-> arg, outcome |-> NoOutcome]]
    /\ answer' = [answer EXCEPT ![t] = NoAnswer]
    /\ invoked' = [invoked EXCEPT ![t] = FALSE]
    /\ ret' = [ret EXCEPT ![t] = "none"]
    /\ fault' = [fault EXCEPT ![t] = FALSE]
    /\ IF arg = "nonstring"
       THEN /\ pc' = [pc EXCEPT ![t] = "rejected"]
            /\ op' = [op EXCEPT ![t] = "none"]
       ELSE /\ pc' = [pc EXCEPT ![t] = Entry(Loads(fn))]
            /\ op' = [op EXCEPT ![t] = Loads(fn)]
    /\ UNCHANGED <<slots, config, api, http, pure, locking, locals, clean, loads, publishes>>

\* The facade function returns a (or lets an exception out) to its caller;
\* its locals, the value of the load function among them, are gone.
PredictReturn(t, a) ==
    /\ answer' = [answer EXCEPT ![t] = a]
    /\ UNCHANGED invoked
    /\ request' = [request EXCEPT ![t] = NoRequest]
    /\ pc' = [pc EXCEPT ![t] = "idle"]
    /\ ret' = [ret EXCEPT ![t] = "none"]
    /\ op' = [op EXCEPT ![t] = "none"]
    /\ fault' = [fault EXCEPT ![t] = FALSE]

\* Lines 31-33: return 0.5, False
PredictReject(t) ==
    /\ pc[t] = "rejected"
    /\ PredictReturn(t, Fallback)
    /\ UNCHANGED <<slots, config, api, http, pure, locking, locals, clean, ncalls, loads,
                   publishes>>

\* From the return of the load function to the call of predict_proba: the
\* read of the slot, the test of both, the checks of the input.
PredictInvoke(t, input) ==
    /\ pc[t] = "predict"
    /\ LET fn == request[t].fn
           m == IF fn = "lexical_predict" THEN lexical_model ELSE prosodic_model
           check == InputCheck(fn, input)
       IN IF ret[t] = "raise"
          THEN PredictReturn(t, Raised)
          ELSE IF ~(ret[t] = "true" /\ m # None)
          THEN PredictReturn(t, Fallback)
          ELSE IF check # "ok"
          THEN PredictReturn(t, IF check = "return" THEN Fallback
                                ELSE PredictHandler(check))
          ELSE /\ \E o \in PredictProbaOutcomes :
                     request' = [request EXCEPT ![t].input = input,
                                                ![t].outcome = o]
               /\ invoked' = [invoked EXCEPT ![t] = TRUE]
               /\ pc' = [pc EXCEPT ![t] = "predicted"]
               /\ UNCHANGED <<answer, ret, op, fault>>
    /\ UNCHANGED <<slots, config, api, http, pure, locking, locals, clean, ncalls, loads,
                   publishes>>

\* The checks of what predict_proba returned, the handlers, the return
PredictFinish(t) ==
    /\ pc[t] = "predicted"
    /\ PredictReturn(t, Interpret(request[t].outcome))
    /\ UNCHANGED <<slots, config, api, http, pure, locking, locals, clean, ncalls, loads,
                   publishes>>

FacadeStep(t) ==
    \/ \E fn \in {"lexical_predict", "prosodic_predict"} :
          \E arg \in Arguments(fn) : PredictCall(t, fn, arg)
    \/ PredictReject(t)
    \/ \E input \in Inputs(request[t].fn) : PredictInvoke(t, input)
    \/ PredictFinish(t)
    \/ LoadStep(t)

FacadeNext == \E t \in Threads : FacadeStep(t)

\* Threads serving requests through the facade
FacadeSpec == Init /\ [][FacadeNext]_vars

(* ------------------------- the health-check route --------------------- *)
\* The three getters return the slot as it is
get_lexical_model == lexical_model
get_prosodic_model == prosodic_model
get_onnx_session == onnx_session

\* A request for /api/health reaches health_check in thread t
HealthCheck(t) ==
    /\ pc[t] = "idle"
    /\ ncalls < MaxRequests
    /\ ncalls' = ncalls + 1
    /\ pc' = [pc EXCEPT ![t] = "health_lexical"]
    /\ health' = [health EXCEPT ![t] = NoReport]
    /\ UNCHANGED <<slots, config, api, facade, pure, locking, locals, clean, fault, op,
                   ret, loads, publishes>>

\* A read that reports every resource as loaded
HealthReadAlwaysLoaded(t, at, key, value, next) ==
    /\ pc[t] = at
    /\ health' = [health EXCEPT ![t][key] = TRUE]
    /\ pc' = [pc EXCEPT ![t] = next]
    /\ UNCHANGED <<slots, config, api, facade, pure, locking, locals, clean, fault, op,
                   ret, ncalls, loads, publishes>>

\* One of the three reads of health_check: lines 30-34, 36-40, 42-46
HealthRead(t, at, key, value, next) ==
    /\ pc[t] = at
    /\ health' = [health EXCEPT ![t][key] = (value # None)]
    /\ pc' = [pc EXCEPT ![t] = next]
    /\ UNCHANGED <<slots, config, api, facade, pure, locking, locals, clean, fault, op,
                   ret, ncalls, loads, publishes>>

HealthLexical(t) ==
    HealthRead(t, "health_lexical", "lexical", get_lexical_model, "health_prosodic")

HealthProsodic(t) ==
    HealthRead(t, "health_prosodic", "prosodic", get_prosodic_model, "health_onnx")

HealthOnnx(t) ==
    HealthRead(t, "health_onnx", "wav2vec_onnx", get_onnx_session, "health_done")

\* return jsonify(...): the response leaves with the object built
HealthRespond(t) ==
    /\ pc[t] = "health_done"
    /\ health' = [health EXCEPT ![t] = NoReport]
    /\ pc' = [pc EXCEPT ![t] = "idle"]
    /\ UNCHANGED <<slots, config, api, facade, pure, locking, locals, clean, fault, op,
                   ret, ncalls, loads, publishes>>

HealthStep(t) ==
    \/ HealthCheck(t)
    \/ HealthLexical(t)
    \/ HealthProsodic(t)
    \/ HealthOnnx(t)
    \/ HealthRespond(t)

\* A call of a load function while requests are still to come
LoadCall(t) ==
    /\ ncalls < MaxRequests
    /\ \E f \in {"lexical", "onnx", "prosodic"} : Call(t, f)

HealthNext == \E t \in Threads : HealthStep(t) \/ LoadCall(t) \/ LoadStep(t)

\* Health checks beside the calls of the load functions
HealthSpec == Init /\ [][HealthNext]_vars

(* ------------------------ RestrictedUnpickler ------------------------- *)
\* Members of TRUSTED_MODULES (a frozenset of 53 names, matched exactly)
TRUSTED_MODULES == {"sklearn.pipeline", "sklearn.svm", "builtins"}

\* Members of BLOCKED_CLASS_NAMES
BLOCKED_CLASS_NAMES == {"eval", "load"}

\* Module and attribute names a stream may put in a GLOBAL reference:
\* "os" and "pickle" are not in TRUSTED_MODULES
Modules == TRUSTED_MODULES \cup {"os", "pickle"}
Names == {"Pipeline", "LinearSVC", "dict", "eval", "load", "system"}

\* The attributes that exist in each module
Exists(module, name) ==
    <<module, name>> \in {<<"sklearn.pipeline", "Pipeline">>,
                          <<"sklearn.svm", "LinearSVC">>,
                          <<"builtins", "dict">>, <<"builtins", "eval">>,
                          <<"os", "system">>, <<"pickle", "load">>}

\* raise pickle.UnpicklingError(f'Untrusted module blocked: {module}.{name}. ...')
Blocked(module, name) ==
    [exc |-> "UnpicklingError",
     message |-> <<"Untrusted module blocked", module, name>>,
     delegated |-> FALSE, class |-> <<>>]

\* pickle.Unpickler.find_class: imports the module and gets the attribute
SuperFindClass(module, name) ==
    IF Exists(module, name)
    THEN [exc |-> "none", message |-> <<>>, delegated |-> TRUE,
          class |-> <<module, name>>]
    ELSE [exc |-> "AttributeError", message |-> <<>>, delegated |-> TRUE,
          class |-> <<>>]

\* A find_class that looks the module up first
FindClassAllowFirst(module, name) ==
    IF module \in TRUSTED_MODULES THEN SuperFindClass(module, name)
    ELSE Blocked(module, name)

\* RestrictedUnpickler.find_class
FindClass(module, name) ==
    IF name \in BLOCKED_CLASS_NAMES THEN Blocked(module, name)
    ELSE IF module \in TRUSTED_MODULES THEN SuperFindClass(module, name)
    ELSE Blocked(module, name)

\* GLOBAL references a stream may hold: the attributes that exist
Globals == {r \in Modules \X Names : Exists(r[1], r[2])}

\* What a model file may hold: the references of the stream in the order the
\* unpickler meets them, the first being the class of the object the stream
\* builds; whether the stream runs to its STOP opcode; what it sets the
\* `steps` attribute of a Pipeline to.
Contents ==
    [refs : UNION {[1..n -> Globals] : n \in 1..MaxRefs},
     complete : BOOLEAN,
     steps : {"pairs", "malformed"}]

\* The kind of object a stream builds when every reference resolves
ObjectKind(content) ==
    LET top == content.refs[1] IN
    CASE top = <<"sklearn.pipeline", "Pipeline">> ->
             IF content.steps = "pairs" THEN "valid" ELSE "badsteps"
      [] top = <<"sklearn.svm", "LinearSVC">> -> "predictonly"
      [] OTHER -> "nointerface"

RECURSIVE Resolve(_, _)
\* The unpickler at reference i of the stream: a find_class that raises
\* ends the load there, with i - 1 references resolved.
Resolve(refs, i) ==
    IF i > Len(refs)
    THEN [exc |-> "none", message |-> <<>>, resolved |-> Len(refs)]
    ELSE LET c == FindClass(refs[i][1], refs[i][2]) IN
         IF c.exc # "none"
         THEN [exc |-> c.exc, message |-> c.message, resolved |-> i - 1]
         ELSE Resolve(refs, i + 1)

\* A load that drops what find_class turns down and goes on
UnpicklerLoadBestEffort(content) ==
    IF ~content.complete
    THEN [exc |-> "EOFError", message |-> <<>>, resolved |-> Len(content.refs),
          object |-> None]
    ELSE [exc |-> "none", message |-> <<>>, resolved |-> Len(content.refs),
          object |-> NewObject(ObjectKind(content), 0)]

\* RestrictedUnpickler(f).load(): the object, or the exception that ended it
UnpicklerLoad(content) ==
    LET r == Resolve(content.refs, 1) IN
    IF r.exc # "none"
    THEN [exc |-> r.exc, message |-> r.message, resolved |-> r.resolved,
          object |-> None]
    ELSE IF ~content.complete
    THEN [exc |-> "EOFError", message |-> <<>>, resolved |-> r.resolved,
          object |-> None]
    ELSE [exc |-> "none", message |-> <<>>, resolved |-> r.resolved,
          object |-> NewObject(ObjectKind(content), 0)]

(* ------------------------- secure_load_pickle ------------------------- *)
\* Path segments: the parent entry, the model directory (the directory of
\* PROSODIC_MODEL_PATH, here /models), a sibling whose name it prefixes, a
\* symbolic link to /etc, the temporary directory, a regular file name
Segments == {"..", "models", "models2", "link", "tmp", "m.pkl"}

\* A filepath: absolute or relative, its segments joined by "/". No
\* segments and relative is the empty string; no segments and absolute is "/".
Paths ==
    [abs : BOOLEAN, segs : UNION {[1..n -> Segments] : n \in 0..MaxSegs}]

\* No file at the path
Missing == [refs |-> <<>>, complete |-> FALSE, steps |-> "none"]

\* What lies at a path when it is opened: nothing, or a stream (here a
\* whole one of a single reference)
Files ==
    {Missing} \cup [refs : [1..1 -> Globals], complete : {TRUE}, steps : {"pairs"}]

\* os.path.realpath(os.path.dirname(PROSODIC_MODEL_PATH))
ExpectedDir == <<"models">>

\* The test for traversal patterns on the string: '/../' in it, '../' at its
\* start, or the string '..' itself (the two patterns with a backslash
\* match none of these paths)
HasTraversalPattern(p) ==
    \/ \E i \in DOMAIN p.segs :
          p.segs[i] = ".." /\ i < Len(p.segs) /\ (i > 1 \/ p.abs)
    \/ ~p.abs /\ Len(p.segs) > 1 /\ p.segs[1] = ".."
    \/ ~p.abs /\ p.segs = <<"..">>

RECURSIVE Realpath(_, _)
\* os.path.realpath of an absolute path: done is the resolved prefix, rest
\* the segments still to walk; ".." drops the last segment (the root is its
\* own parent), the link is replaced by its target /etc.
Realpath(done, rest) ==
    IF rest = <<>> THEN done
    ELSE IF Head(rest) = ".."
    THEN Realpath(IF done = <<>> THEN <<>> ELSE SubSeq(done, 1, Len(done) - 1),
                  Tail(rest))
    ELSE IF Head(rest) = "link" THEN Realpath(<<"etc">>, Tail(rest))
    ELSE Realpath(Append(done, Head(rest)), Tail(rest))

\* os.path.commonpath of two absolute paths: their longest common prefix of
\* whole segments
CommonPath(a, b) ==
    LET Agree(n) == \A i \in 1..n : a[i] = b[i]
        Lens == {n \in 0..Len(a) : n <= Len(b) /\ Agree(n)}
    IN SubSeq(a, 1, CHOOSE n \in Lens : \A m \in Lens : m <= n)

\* Containment by comparing the strings' prefixes
InsideExpectedByStringPrefix(resolved) ==
    resolved # <<>> /\ resolved[1] \in {"models", "models2"}

\* common == expected_dir
InsideExpected(resolved) == CommonPath(resolved, ExpectedDir) = ExpectedDir

\* open(filepath, 'rb'): "file", or the exception raised. A path that does
\* not end in a file name is a directory; one that goes through a file is
\* no path at all.
Open(p, file) ==
    IF p.segs = <<>> \/ p.segs[Len(p.segs)] # "m.pkl" THEN "OSError"
    ELSE IF \E i \in 1..(Len(p.segs) - 1) : p.segs[i] = "m.pkl" THEN "OSError"
    ELSE IF file = Missing THEN "FileNotFoundError"
    ELSE "file"

\* raise ValueError(text), before or without a file object
Refused(exc, text) ==
    [exc |-> exc, message |-> <<text>>, resolved |-> 0, object |-> None,
     opened |-> FALSE]

\* A secure_load_pickle without the test of absolute paths
secure_load_pickle_anywhere(p, skip, file) ==
    IF p = [abs |-> FALSE, segs |-> <<>>]
    THEN Refused("ValueError", "Invalid filepath: must be a non-empty string")
    ELSE IF ~skip /\ HasTraversalPattern(p)
    THEN Refused("ValueError", "Invalid filepath: path traversal detected")
    ELSE LET f == Open(p, file) IN
         IF f = "FileNotFoundError" THEN Refused("FileNotFoundError", "")
         ELSE IF f = "OSError" THEN Refused("ValueError", "Failed to open model file")
         ELSE [opened |-> TRUE] @@ UnpicklerLoad(file)

\* secure_load_pickle(filepath, skip_path_validation) with the given file at
\* the path: the outcome of the load, and whether open() returned a file
secure_load_pickle(p, skip, file) ==
    IF p = [abs |-> FALSE, segs |-> <<>>]
    THEN Refused("ValueError", "Invalid filepath: must be a non-empty string")
    ELSE IF ~skip /\ HasTraversalPattern(p)
    THEN Refused("ValueError", "Invalid filepath: path traversal detected")
    ELSE IF ~skip /\ p.abs /\ ~InsideExpected(Realpath(<<>>, p.segs))
    THEN Refused("ValueError", "Invalid filepath: path outside allowed directory")
    ELSE LET f == Open(p, file) IN
         IF f = "FileNotFoundError" THEN Refused("FileNotFoundError", "")
         ELSE IF f = "OSError" THEN Refused("ValueError", "Failed to open model file")
         ELSE [opened |-> TRUE] @@ UnpicklerLoad(file)

\* LEXICAL_MODEL_PATH / PROSODIC_MODEL_PATH: a file of the model directory
ModelPath == [abs |-> TRUE, segs |-> <<"models", "m.pkl">>]

\* The try of load_lexical_model and of load_prosodic_models around a file
\* that exists, with the slot null: what the function returns and what the
\* slot holds after it.
TryLoad(file) ==
    LET r == secure_load_pickle(ModelPath, FALSE, file) IN
    IF r.exc # "none"
    THEN [ret |-> LoadHandler(r.exc), slot |-> None]
    ELSE LET v == ValidateSklearnModel(r.object) IN
         IF v = "true"
         THEN [ret |-> "true", slot |-> [r.object EXCEPT !.validated = TRUE]]
         ELSE [ret |-> IF v = "false" THEN "false" ELSE LoadHandler("TypeError"),
               slot |-> None]

\* secure_load_pickle(filepath, skip_path_validation) is called
SecureLoadPickleCall(p, skip, file) ==
    /\ call = NoCall
    /\ call' = [fn |-> "secure_load_pickle", filepath |-> p, skip |-> skip,
                file |-> file, out |-> secure_load_pickle(p, skip, file)]
    /\ UNCHANGED program

\* RestrictedUnpickler(io.BytesIO(content)).load() is called, and the try of
\* a load function runs on a model file of that content
UnpicklerLoadCall(content) ==
    /\ call = NoCall
    /\ call' = [fn |-> "load", content |-> content, out |-> UnpicklerLoad(content),
                load_model |-> TryLoad(content)]
    /\ UNCHANGED program

\* validate_sklearn_model(model, model_name) is called
ValidateCall(kind) ==
    /\ call = NoCall
    /\ call' = [fn |-> "validate_sklearn_model", kind |-> kind,
                out |-> ValidateSklearnModel(NewObject(kind, 0))]
    /\ UNCHANGED program

\* find_class(module, name) is called
FindClassCall(module, name) ==
    /\ call = NoCall
    /\ call' = [fn |-> "find_class", module |-> module, name |-> name,
                out |-> FindClass(module, name)]
    /\ UNCHANGED program

(* ------------------------ the prosodic endpoint ------------------------ *)
\* What the lines before the try find in the request: no 'audio' part or
\* one without a filename, a file validate_audio_file turns down, a file
\* over the size limit, a read that is short of the size, seek/tell/read
\* raising OSError or MemoryError, no bytes at all, or the bytes of a file.
Uploads == {"absent", "invalid", "toolarge", "truncated", "OSError",
            "MemoryError", "empty", "audio"}

\* How the decoding ends: soundfile reads the bytes, or it fails and
\* _decode_with_ffmpeg returns or raises
Decodings == {"soundfile", "ffmpeg", "AudioDecodingError", "ValueError",
              "RuntimeError"}

\* len(waveform) after preprocessing, against min_samples
Lengths == {"none", "short", "enough"}

\* What the ONNX session does for extract_embedding: load_onnx_model()
\* returns False, the session is None after it, session.run raises, the
\* output is empty or misshapen, or the embedding comes out
OnnxRuns == {"loadfails", "nosession", "raises", "badoutput", "embedding"}

\* jsonify(...), status
Response(status, tenths, reliable) ==
    [status |-> status, tenths |-> tenths, reliable |-> reliable]

\* jsonify({'error': ...}), 400
ClientError == Response(400, 0, FALSE)

\* The exception goes to Flask's error handler
ServerError == Response(500, 0, FALSE)

\* The lines before the try: the response returned, or "read" when
\* audio_bytes holds the file
ReadUpload(upload) == IF upload = "audio" THEN "read" ELSE "refused"

\* decode_audio(audio_bytes): the except clauses around _decode_with_ffmpeg
\* pass ValueError and AudioDecodingError on and wrap anything else
decode_audio(decoding) ==
    IF decoding \in {"soundfile", "ffmpeg"} THEN "none"
    ELSE IF decoding \in {"ValueError", "AudioDecodingError"} THEN decoding
    ELSE "AudioDecodingError"

\* preprocess_audio(waveform, sr): raises on a sample rate that is not
\* positive
preprocess_audio(sr_positive) ==
    IF sr_positive THEN "none" ELSE "AudioValidationError"

\* extract_embedding(waveform): the model is looked at before the waveform
extract_embedding(onnx, length) ==
    IF onnx \in {"loadfails", "nosession"} THEN "ModelUnavailableError"
    ELSE IF length = "none" THEN "AudioValidationError"
    ELSE IF onnx \in {"raises", "badoutput"} THEN "ModelUnavailableError"
    ELSE "none"

\* prosodic_predict(embedding) on a float32 embedding of shape (768,):
\* loaded says load_prosodic_models() returned True and the model is there
prosodic_predict(loaded, o) ==
    IF ~loaded THEN Fallback
    ELSE IF InputCheck("prosodic_predict", "float32") # "ok"
    THEN PredictHandler(InputCheck("prosodic_predict", "float32"))
    ELSE Interpret(o)

\* The body of the try of prosodic_detection: the exception that leaves it,
\* whether it returned on a short waveform, and what prosodic_predict gave
Processing(decoding, sr_positive, length, onnx, loaded, o) ==
    LET none == [exc |-> "none", short |-> FALSE, predicted |-> FALSE,
                 tenths |-> 0, is_real |-> FALSE]
    IN  IF decode_audio(decoding) # "none"
        THEN [none EXCEPT !.exc = decode_audio(decoding)]
        ELSE IF preprocess_audio(sr_positive) # "none"
        THEN [none EXCEPT !.exc = preprocess_audio(sr_positive)]
        ELSE IF length # "enough" THEN [none EXCEPT !.short = TRUE]
        ELSE IF extract_embedding(onnx, length) # "none"
        THEN [none EXCEPT !.exc = extract_embedding(onnx, length)]
        ELSE LET r == prosodic_predict(loaded, o) IN
             IF r.raised THEN [none EXCEPT !.exc = "Exception"]
             ELSE [none EXCEPT !.predicted = TRUE, !.tenths = r.tenths,
                                !.is_real = r.is_real]

\* The same handlers without the clause for ModelUnavailableError
RespondNoModelClause(upload, body) ==
    IF ReadUpload(upload) # "read" THEN ClientError
    ELSE IF body.short THEN ClientError
    ELSE IF body.exc = "AudioDecodingError" THEN Response(200, 5, FALSE)
    ELSE IF body.exc = "AudioValidationError" THEN ClientError
    ELSE IF body.exc # "none" THEN ServerError
    ELSE Response(200, body.tenths, body.is_real)

\* prosodic_detection(): the returns before the try, the return inside it,
\* the four except clauses and the return after them
Respond(upload, body) ==
    IF ReadUpload(upload) # "read" THEN ClientError
    ELSE IF body.short THEN ClientError
    ELSE IF body.exc = "AudioDecodingError" THEN Response(200, 5, FALSE)
    ELSE IF body.exc = "AudioValidationError" THEN ClientError
    ELSE IF body.exc = "ModelUnavailableError" THEN Response(200, 5, FALSE)
    ELSE IF body.exc # "none" THEN ServerError
    ELSE Response(200, body.tenths, body.is_real)

\* POST /api/prosodic is served. What the handler never looks at (the
\* request was refused before the try) is not drawn.
ProsodicDetectionCall(upload, decoding, sr_positive, length, onnx, loaded, o) ==
    /\ call = NoCall
    /\ upload # "audio" =>
          /\ decoding = "soundfile" /\ sr_positive /\ length = "enough"
          /\ onnx = "embedding" /\ loaded /\ o = Array(<<1, 2>>, FALSE, 0)
    /\ LET body == Processing(decoding, sr_positive, length, onnx, loaded, o) IN
       call' = [fn |-> "prosodic_detection", upload |-> upload,
                decoding |-> decoding, onnx |-> onnx, loaded |-> loaded,
                body |-> body, out |-> Respond(upload, body)]
    /\ UNCHANGED program

\* The kinds of object validate_sklearn_model is given
ObjectKinds == {"valid", "badsteps", "estimator", "probaonly", "predictonly",
                "stepsonly", "nointerface"}

FunctionNext ==
    \/ /\ call = NoCall
       /\ \E module \in Modules : \E name \in Names : FindClassCall(module, name)
    \/ /\ call = NoCall
       /\ \E content \in Contents : UnpicklerLoadCall(content)
    \/ /\ call = NoCall
       /\ \E p \in Paths : \E skip \in BOOLEAN : \E file \in Files :
             SecureLoadPickleCall(p, skip, file)
    \/ /\ call = NoCall
       /\ \E kind \in ObjectKinds : ValidateCall(kind)
    \/ /\ call = NoCall
       /\ \E upload \in Uploads : \E decoding \in Decodings :
          \E sr_positive \in BOOLEAN : \E length \in Lengths :
          \E onnx \in OnnxRuns : \E loaded \in BOOLEAN :
          \E o \in PredictProbaOutcomes :
             ProsodicDetectionCall(upload, decoding, sr_positive, length,
                                   onnx, loaded, o)

\* One call of the deserializer, of the loader of files, of the validator
\* or of the prosodic endpoint
FunctionInit == Init /\ onnx_available /\ validation

FunctionSpec == FunctionInit /\ [][FunctionNext]_vars

(* -------------- OrderedLock and the validation scope, used directly ---- *)
\* Everything of the loader and the facade that the lock operations leave
\* alone
loader == <<slots, onnx_available, production, clean, fault, op, locals, loads, publishes,
           facade, http, pure>>

\* An open `with lock:` block
WithFrame(l) == [kind |-> "with", lock |-> l, enabled |-> FALSE, old |-> FALSE]

\* An open `with enable_lock_ordering_validation(enabled):` block and the
\* old_value it saved
ScopeFrame(enabled, old_value) ==
    [kind |-> "scope", lock |-> "none", enabled |-> enabled, old |-> old_value]

Top(s) == s[Len(s)]
Pop(s) == SubSeq(s, 1, Len(s) - 1)

\* get_held_locks() called by thread t: (name, order) pairs
GetHeldLocks(t) ==
    IF ~validation THEN <<>>
    ELSE [i \in DOMAIN held[t] |-> <<held[t][i], Order(held[t][i])>>]

\* The three ways acquire() is called: by __enter__, blocking with no
\* timeout, and with blocking=False or a timeout
Hows == {"with", "block", "try"}

\* The held lock that the loop of _validate_lock_order stops at
FirstViolation(t, l) ==
    LET i == CHOOSE i \in DOMAIN held[t] :
                 /\ Order(held[t][i]) > Order(l)
                 /\ \A j \in 1..(i - 1) : ~(Order(held[t][j]) > Order(l))
    IN held[t][i]

\* What error_msg says: the lock held, the lock wanted, the required order
ErrorMsg(h, l) ==
    <<"Currently holding", h, Order(h), "Trying to acquire", l, Order(l),
      "Required lock order",
      "_lexical_model_lock", 1, "_prosodic_model_lock", 2, "_onnx_session_lock", 3>>

\* acquire(): _validate_lock_order, which raises LockOrderingError or lets
\* the call go on to the underlying lock.
AcquireCall(t, l, how) ==
    /\ pc[t] = "idle"
    /\ ncalls < MaxCalls
    /\ ncalls' = ncalls + 1
    /\ IF ValidateLockOrderRaises(t, l)
       THEN /\ pc' = [pc EXCEPT ![t] = "unwind"]
            /\ ret' = [ret EXCEPT ![t] = "LockOrderingError"]
            /\ pending' = [pending EXCEPT ![t] =
                              [lock |-> l, how |-> "raised",
                               message |-> ErrorMsg(FirstViolation(t, l), l)]]
       ELSE /\ pc' = [pc EXCEPT ![t] = "acq_take"]
            /\ ret' = [ret EXCEPT ![t] = "none"]
            /\ pending' = [pending EXCEPT ![t] =
                              [lock |-> l, how |-> how, message |-> <<>>]]
    /\ UNCHANGED <<loader, validation, locking, frames>>

\* An acquire() that calls self._lock.acquire() without its arguments
AcquireTakeIgnoresBound(t) ==
    /\ pc[t] = "acq_take"
    /\ lock[pending[t].lock] = NoThread
    /\ Acquire(t, pending[t].lock)
    /\ ret' = [ret EXCEPT ![t] = "true"]
    /\ frames' = IF pending[t].how = "with"
                 THEN [frames EXCEPT ![t] = Append(@, WithFrame(pending[t].lock))]
                 ELSE frames
    /\ pending' = [pending EXCEPT ![t] = NoPending]
    /\ pc' = [pc EXCEPT ![t] = "idle"]
    /\ UNCHANGED <<loader, validation, ncalls>>

\* An acquire() over a reentrant primitive: the owner takes it again
AcquireTakeReentrant(t) ==
    /\ pc[t] = "acq_take"
    /\ LET l == pending[t].lock IN
       IF lock[l] \in {NoThread, t}
       THEN /\ lock' = [lock EXCEPT ![l] = t]
            /\ held' = IF validation THEN [held EXCEPT ![t] = Append(@, l)] ELSE held
            /\ ret' = [ret EXCEPT ![t] = "true"]
            /\ frames' = IF pending[t].how = "with"
                         THEN [frames EXCEPT ![t] = Append(@, WithFrame(l))]
                         ELSE frames
       ELSE /\ pending[t].how = "try"
            /\ ret' = [ret EXCEPT ![t] = "false"]
            /\ UNCHANGED <<locking, frames>>
    /\ pending' = [pending EXCEPT ![t] = NoPending]
    /\ pc' = [pc EXCEPT ![t] = "idle"]
    /\ UNCHANGED <<loader, validation, ncalls>>

\* Lines 444-451: self._lock.acquire(blocking, timeout) takes a free
\* primitive and the lock is appended to the thread's list; on a held one the
\* call waits, or gives up with False when called with a bound. __enter__
\* opens the block.
AcquireTake(t) ==
    /\ pc[t] = "acq_take"
    /\ LET l == pending[t].lock IN
       IF lock[l] = NoThread
       THEN /\ Acquire(t, l)
            /\ ret' = [ret EXCEPT ![t] = "true"]
            /\ frames' = IF pending[t].how = "with"
                         THEN [frames EXCEPT ![t] = Append(@, WithFrame(l))]
                         ELSE frames
       ELSE /\ pending[t].how = "try"
            /\ ret' = [ret EXCEPT ![t] = "false"]
            /\ UNCHANGED <<locking, frames>>
    /\ pending' = [pending EXCEPT ![t] = NoPending]
    /\ pc' = [pc EXCEPT ![t] = "idle"]
    /\ UNCHANGED <<loader, validation, ncalls>>

\* Thread t is inside a with-block of lock l
InWith(t, l) ==
    \E i \in DOMAIN frames[t] : frames[t][i].kind = "with" /\ frames[t][i].lock = l

\* release() called directly on a lock the thread acquired directly
ReleaseCall(t, l) ==
    /\ pc[t] = "idle"
    /\ lock[l] = t
    /\ ~InWith(t, l)
    /\ Release(t, l)
    /\ UNCHANGED <<loader, validation, pc, ret, ncalls, api>>

\* An __exit__ that releases only when the block was left normally
WithExitNormalOnly(t) ==
    /\ pc[t] \in {"idle", "unwind"}
    /\ frames[t] # <<>>
    /\ Top(frames[t]).kind = "with"
    /\ IF pc[t] = "idle"
       THEN Release(t, Top(frames[t]).lock)
       ELSE UNCHANGED locking
    /\ frames' = [frames EXCEPT ![t] = Pop(@)]
    /\ UNCHANGED <<loader, validation, pc, ret, ncalls, pending>>

\* __exit__ of the innermost with-block, left normally or by an exception:
\* release(), and False is returned, so an exception goes on.
WithExit(t) ==
    /\ pc[t] \in {"idle", "unwind"}
    /\ frames[t] # <<>>
    /\ Top(frames[t]).kind = "with"
    /\ Release(t, Top(frames[t]).lock)
    /\ frames' = [frames EXCEPT ![t] = Pop(@)]
    /\ UNCHANGED <<loader, validation, pc, ret, ncalls, pending>>

\* The body of a with-block raises
BodyRaise(t) ==
    /\ pc[t] = "idle"
    /\ frames[t] # <<>>
    /\ pc' = [pc EXCEPT ![t] = "unwind"]
    /\ ret' = [ret EXCEPT ![t] = "ValueError"]
    /\ UNCHANGED <<loader, validation, locking, ncalls, api>>

\* An except clause around the blocks unwound so far takes the exception
\* (pytest.raises, try/except, or the top of the thread)
Catch(t) ==
    /\ pc[t] = "unwind"
    /\ pc' = [pc EXCEPT ![t] = "idle"]
    /\ pending' = [pending EXCEPT ![t] = NoPending]
    /\ UNCHANGED <<loader, validation, locking, ret, ncalls, frames>>

\* The validation scopes thread t is inside, outermost first
Scopes(t) == SelectSeq(frames[t], LAMBDA f : f.kind = "scope")

\* enable_lock_ordering_validation(enabled) up to its yield
ScopeEnter(t, enabled) ==
    /\ pc[t] = "idle"
    /\ Len(Scopes(t)) < MaxDepth
    /\ frames' = [frames EXCEPT ![t] = Append(@, ScopeFrame(enabled, validation))]
    /\ validation' = enabled
    /\ UNCHANGED <<loader, locking, pc, ret, ncalls, pending>>

\* A scope that puts the flag back only when its block ends normally
ScopeExitNoFinally(t) ==
    /\ pc[t] \in {"idle", "unwind"}
    /\ frames[t] # <<>>
    /\ Top(frames[t]).kind = "scope"
    /\ validation' = IF pc[t] = "idle" THEN Top(frames[t]).old ELSE validation
    /\ frames' = [frames EXCEPT ![t] = Pop(@)]
    /\ UNCHANGED <<loader, locking, pc, ret, ncalls, pending>>

\* The finally clause of enable_lock_ordering_validation
ScopeExit(t) ==
    /\ pc[t] \in {"idle", "unwind"}
    /\ frames[t] # <<>>
    /\ Top(frames[t]).kind = "scope"
    /\ validation' = Top(frames[t]).old
    /\ frames' = [frames EXCEPT ![t] = Pop(@)]
    /\ UNCHANGED <<loader, locking, pc, ret, ncalls, pending>>

LockStep(t) ==
    \/ \E l \in Locks, how \in Hows : AcquireCall(t, l, how)
    \/ AcquireTake(t)
    \/ \E l \in Locks : ReleaseCall(t, l)
    \/ WithExit(t)
    \/ BodyRaise(t)
    \/ Catch(t)

LockNext == \E t \in Threads : LockStep(t)

\* The ONNX runtime plays no part in the lock operations.
LockInit == Init /\ onnx_available

\* Threads using the three locks directly; the flag keeps the value the
\* environment gave it.
LockSpec == LockInit /\ [][LockNext]_vars

\* The thread that runs the validation scopes
Main == 1

ScopeNext ==
    \/ LockStep(Main)
    \/ \E enabled \in BOOLEAN : ScopeEnter(Main, enabled)
    \/ ScopeExit(Main)

\* One thread using the locks inside validation scopes that it opens and
\* closes, nested
ScopeSpec == LockInit /\ [][ScopeNext]_vars

ThreadScopeNext ==
    \E t \in Threads :
        \/ \E enabled \in BOOLEAN : ScopeEnter(t, enabled)
        \/ ScopeExit(t)

\* Every thread opens and closes validation scopes of its own, as the
\* workers of the thread tests do; the scopes of different threads overlap
\* in any way the scheduler allows.
ThreadScopeSpec == LockInit /\ [][ThreadScopeNext]_vars

(* ============================== claims ================================ *)
LoadFunctions == {"lexical", "onnx", "prosodic"}

\* Thread t's call of load function f has returned (or raised).
Returned(t, f) == pc[t] = "idle" /\ op[t] = f /\ ret[t] # "none"

\* Thread t takes the step that returns from its outermost call.
Returns(t) == pc[t] # "idle" /\ pc[t] # "holding" /\ pc'[t] = "idle"

Slot(r) ==
    CASE r = "lexical" -> lexical_model
      [] r = "prosodic" -> prosodic_model
      [] r = "onnx" -> onnx_session

\* C1: in every reachable state, under any interleaving of the three load
\* functions (and of threads that hold a lock directly), the classifier slot
\* is non-null only if the encoder-session slot is non-null.
C1_ClassifierImpliesEncoder ==
    prosodic_model # None => onnx_session # None

\* The classifier is published by one thread while another thread holds the
\* encoder-session lock.
C1_Witness ==
    \E a, b \in Threads :
        /\ a # b
        /\ pc[a] = "pro_exit" /\ result[a] = "true" /\ prosodic_model = model[a]
        /\ prosodic_model # None
        /\ pc[b] = "holding" /\ lock["_onnx_session_lock"] = b

\* C2: a step by which load_prosodic_models returns true ends in a state
\* where the encoder-session slot and the classifier slot are both non-null.
C2_TrueReturnHasBoth ==
    [][\A t \in Threads :
          (Returns(t) /\ op[t] = "prosodic" /\ ret'[t] = "true")
              => (prosodic_model' # None /\ onnx_session' # None)]_vars

\* load_prosodic_models has returned true to one thread after a direct
\* load_onnx_model call of another thread returned true.
C2_Witness ==
    \E a, b \in Threads :
        /\ a # b
        /\ Returned(a, "prosodic") /\ ret[a] = "true"
        /\ Returned(b, "onnx") /\ ret[b] = "true"
        /\ prosodic_model # None /\ onnx_session # None

\* C3 as stated: the load body of each resource executes at most once per
\* process, whatever the number of threads and calls.
C3_LoadBodyAtMostOnce ==
    \A r \in Resources : loads[r] <= 1

\* C3 as amended: once a resource's slot is loaded its load body never
\* executes again, and at most one execution per resource publishes an
\* artifact; executions that fail may be repeated by later calls.
C3_AtMostOneSuccessfulLoad ==
    [][\A r \in Resources :
          /\ publishes'[r] <= 1
          /\ (Slot(r) # None => loads'[r] = loads[r])]_vars

\* The lexical load body ran twice: a failed execution, then the one that
\* published the model.
C3_Witness ==
    /\ loads["lexical"] = 2
    /\ publishes["lexical"] = 1
    /\ lexical_model # None

\* C4: as long as every look at the lexical model file has found it present
\* and valid, every load_lexical_model call that has returned has returned
\* true and the file was read and deserialized exactly once (a thread that
\* finds the slot loaded at the re-check under the lock does not load again).
C4_LexicalLoadedExactlyOnce ==
    clean["lexical"] =>
        /\ \A t \in Threads : Returned(t, "lexical") => ret[t] = "true"
        /\ loads["lexical"] <= 1
        /\ (\E t \in Threads : Returned(t, "lexical")) => loads["lexical"] = 1

\* One thread has returned true after loading; the other, which waited for
\* the lock, found the slot loaded at the re-check and leaves with true
\* without having deserialized anything.
C4_Witness ==
    \E a, b \in Threads :
        /\ a # b
        /\ clean["lexical"]
        /\ Returned(a, "lexical") /\ ret[a] = "true"
        /\ pc[b] = "lex_exit" /\ result[b] = "true" /\ model[b] = None
        /\ loads["lexical"] = 1

\* C5: with the ONNX runtime available and the encoder file and classifier
\* file present and valid at every look, each load_prosodic_models call that
\* has returned has returned true, and both slots are then non-null.
C5_ConcurrentProsodicLoads ==
    (onnx_available /\ clean["onnx"] /\ clean["prosodic"]) =>
        \A t \in Threads :
            Returned(t, "prosodic") =>
                /\ ret[t] = "true"
                /\ onnx_session # None
                /\ prosodic_model # None

\* Two threads made the first two calls, both load_prosodic_models, and both
\* returned true after one load of each artifact.
C5_Witness ==
    /\ ncalls = 2
    /\ \A t \in 1..2 : Returned(t, "prosodic") /\ ret[t] = "true"
    /\ loads["onnx"] = 1 /\ loads["prosodic"] = 1
    /\ onnx_session # None /\ prosodic_model # None

\* C6: every write of a non-null model to the lexical or classifier slot
\* stores an object that validate_sklearn_model has accepted, and is made by
\* a thread that holds the slot's lock before and after the write.
C6_PublishedAfterValidation ==
    [][/\ (lexical_model' # lexical_model /\ lexical_model' # None) =>
             /\ lexical_model'.validated
             /\ ValidateSklearnModel(lexical_model') = "true"
             /\ \E t \in Threads :
                    /\ lock["_lexical_model_lock"] = t
                    /\ lock'["_lexical_model_lock"] = t
       /\ (prosodic_model' # prosodic_model /\ prosodic_model' # None) =>
             /\ prosodic_model'.validated
             /\ ValidateSklearnModel(prosodic_model') = "true"
             /\ \E t \in Threads :
                    /\ lock["_prosodic_model_lock"] = t
                    /\ lock'["_prosodic_model_lock"] = t]_vars

\* A thread is at the unlocked fast-path read of a published lexical model
\* while the thread that published it still holds the lexical lock.
C6_Witness ==
    \E a, b \in Threads :
        /\ a # b
        /\ pc[a] = "lex_fast"
        /\ lexical_model # None /\ lexical_model.validated
        /\ pc[b] = "lex_exit" /\ lock["_lexical_model_lock"] = b
        /\ model[b] = lexical_model

\* C7: no step changes a slot that holds a non-null artifact.
C7_SlotsMonotonic ==
    [][/\ lexical_model # None => lexical_model' = lexical_model
       /\ onnx_session # None => onnx_session' = onnx_session
       /\ prosodic_model # None => prosodic_model' = prosodic_model]_vars

\* All three slots are loaded and a thread that entered the slow path before
\* that is at the re-check under the classifier lock.
C7_Witness ==
    /\ lexical_model # None /\ onnx_session # None /\ prosodic_model # None
    /\ \E t \in Threads : pc[t] = "pro_check1"

\* C8: no load function lets an exception reach its caller, and a call that
\* met a failure condition (file missing, untrusted type, validator
\* rejection or any other exception in the attempt) returns false.
C8_LoadNeverRaises ==
    \A t \in Threads :
        /\ ret[t] # "raise"
        /\ result[t] # "raise"
        /\ (op[t] \in LoadFunctions /\ pc[t] = "idle" /\ fault[t]) => ret[t] = "false"

\* validate_sklearn_model raised on a malformed `steps` attribute inside the
\* try, and the call is leaving with false.
C8_Witness ==
    \E t \in Threads :
        /\ pc[t] = "lex_exit"
        /\ model[t].kind = "badsteps"
        /\ result[t] = "false"
        /\ fault[t]

\* C9: a step by which a load function returns false is taken by a call
\* that itself met a failure condition (nothing retained from an earlier
\* failure makes a call fail) and leaves that resource's slot null.
C9_FailureLeavesUnloaded ==
    [][\A t \in Threads :
          (Returns(t) /\ ret'[t] = "false") =>
              /\ fault[t]
              /\ op[t] = "lexical" => lexical_model' = None
              /\ op[t] = "onnx" => onnx_session' = None
              /\ op[t] = "prosodic" => prosodic_model' = None]_vars

\* load_onnx_model has returned true on the second execution of its load
\* body: the first one failed and left nothing behind.
C9_Witness ==
    \E t \in Threads :
        /\ Returned(t, "onnx") /\ ret[t] = "true"
        /\ loads["onnx"] = 2
        /\ onnx_session # None /\ onnx_session.id = 2

\* C10: the step a load function takes from its fast-path test when the
\* resource is loaded returns true and changes no slot, no lock and no
\* held-lock list (load_prosodic_models needs both slots non-null); that
\* step is enabled whoever holds the locks.
C10_FastPath ==
    [][\A t \in Threads :
          /\ (pc[t] = "lex_fast" /\ lexical_model # None) =>
                /\ ENABLED LexFast(t)
                /\ pc'[t] # pc[t] =>
                      /\ pc'[t] = "idle" /\ ret'[t] = "true"
                      /\ UNCHANGED <<slots, locking>>
          /\ (pc[t] = "onnx_fast" /\ onnx_session # None) =>
                /\ ENABLED OnnxFast(t)
                /\ pc'[t] # pc[t] =>
                      /\ IF op[t] = "onnx"
                         THEN pc'[t] = "idle" /\ ret'[t] = "true"
                         ELSE pc'[t] = "pro_verify" /\ result'[t] = "true"
                      /\ UNCHANGED <<slots, locking>>
          /\ (pc[t] = "pro_fast1" /\ prosodic_model # None /\ onnx_session # None) =>
                /\ ENABLED ProFast1(t)
                /\ pc'[t] # pc[t] =>
                      /\ pc'[t] = "pro_fast2" /\ check1'[t]
                      /\ UNCHANGED <<slots, locking>>
          /\ (pc[t] = "pro_fast2" /\ check1[t] /\ onnx_session # None) =>
                /\ ENABLED ProFast2(t)
                /\ pc'[t] # pc[t] =>
                      /\ pc'[t] = "idle" /\ ret'[t] = "true"
                      /\ UNCHANGED <<slots, locking>>]_vars

\* A thread is half-way through the fast path of load_prosodic_models, with
\* both artifacts loaded, while another thread holds the classifier lock.
C10_Witness ==
    \E a, b \in Threads :
        /\ a # b
        /\ pc[a] = "pro_fast2" /\ check1[a]
        /\ onnx_session # None /\ prosodic_model # None
        /\ lock["_prosodic_model_lock"] = b
        /\ held[a] = <<>>

\* Thread t owns the underlying primitive of lock l.
Owns(t, l) == lock[l] = t

\* C11: with validation enabled, acquire() of lock l by a thread that holds
\* a lock of greater priority raises LockOrderingError in that very step:
\* the thread does not go on to the underlying primitive, no primitive and no
\* held-lock list changes, and the message names a held lock of greater
\* priority with its priority, the requested lock with its priority and the
\* canonical order.
C11_ViolationRaisesAtOnce ==
    [][\A t \in Threads, l \in Locks, how \in Hows :
          (/\ AcquireCall(t, l, how)
           /\ validation
           /\ \E h \in Locks : Owns(t, h) /\ Order(h) > Order(l))
          => /\ pc'[t] = "unwind"
             /\ ret'[t] = "LockOrderingError"
             /\ lock' = lock
             /\ held' = held
             /\ \E h \in Locks :
                   /\ Owns(t, h) /\ Order(h) > Order(l)
                   /\ pending'[t].message =
                         <<"Currently holding", h, Order(h),
                           "Trying to acquire", l, Order(l),
                           "Required lock order",
                           "_lexical_model_lock", 1,
                           "_prosodic_model_lock", 2,
                           "_onnx_session_lock", 3>>]_vars

\* A thread holding the encoder lock asked for the lexical lock while
\* another thread held it (a wait would not have returned) and got the
\* error; its list still holds the encoder lock alone.
C11_Witness ==
    \E a, b \in Threads :
        /\ a # b
        /\ pc[a] = "unwind" /\ ret[a] = "LockOrderingError"
        /\ pending[a].lock = "_lexical_model_lock"
        /\ held[a] = <<"_onnx_session_lock">>
        /\ Owns(a, "_onnx_session_lock")
        /\ Owns(b, "_lexical_model_lock")
        /\ validation

\* The locks whose primitive thread t owns, by increasing priority
OwnedInOrder(t) ==
    LET S == {l \in Locks : Owns(t, l)} IN
    [i \in 1..Cardinality(S) |->
        CHOOSE l \in S : Cardinality({m \in S : Order(m) < Order(l)}) = i - 1]

\* C12: with validation enabled, acquire() by a thread all of whose locks
\* have a lower priority than the requested one does not raise; and after
\* every step get_held_locks() of each thread is the list of (name, order)
\* of exactly the locks it owns, by increasing priority, which is the order
\* of acquisition (that of its open with-blocks when it took every lock
\* through one), also after each release.
C12_IncreasingOrderNeverRaises ==
    [][/\ \A t \in Threads, l \in Locks, how \in Hows :
            (/\ AcquireCall(t, l, how)
             /\ validation
             /\ \A h \in Locks : Owns(t, h) => Order(h) < Order(l))
            => (pc'[t] = "acq_take" /\ ret'[t] # "LockOrderingError")
       /\ validation' =>
            \A t \in Threads :
               /\ GetHeldLocks(t)' =
                     [i \in DOMAIN OwnedInOrder(t)' |->
                         <<OwnedInOrder(t)'[i], Order(OwnedInOrder(t)'[i])>>]
               /\ (\A l \in Locks : Owns(t, l)' => InWith(t, l)')
                     => held'[t] = [i \in DOMAIN frames'[t] |-> frames'[t][i].lock]]_vars

\* A thread entered the lexical, classifier and encoder blocks in that
\* order, left the innermost one, and its list is back to the first two.
C12_Witness ==
    \E t \in Threads :
        /\ validation
        /\ ncalls = 3
        /\ \A u \in Threads \ {t} : ret[u] = "none" /\ pc[u] = "idle"
        /\ pc[t] = "idle" /\ ret[t] = "true"
        /\ Len(frames[t]) = 2
        /\ GetHeldLocks(t) = << <<"_lexical_model_lock", 1>>,
                                <<"_prosodic_model_lock", 2>> >>
        /\ lock["_onnx_session_lock"] = NoThread

\* The priorities of a list of locks increase strictly from bottom to top.
StrictlyIncreasing(s) ==
    \A i, j \in DOMAIN s : i < j => Order(s[i]) < Order(s[j])

\* Thread t releases lock l in this step.
Releases(t, l) == lock[l] = t /\ lock'[l] = NoThread

LeavesWith(t, l) ==
    /\ frames[t] # <<>>
    /\ Top(frames[t]) = WithFrame(l)
    /\ frames'[t] = Pop(frames[t])

\* C14: whenever a thread leaves a with-block of an OrderedLock, normally or
\* with an exception in flight (one raised by the body, or the
\* LockOrderingError of a nested acquisition), the lock's primitive is free
\* after the step and the lock is not in the thread's held-lock list, and
\* the exception goes on; when that was the outermost block of a thread that
\* took every lock through a with-block, its list is empty and it owns no
\* lock.
C14_WithReleasesOnEveryPath ==
    [][\A t \in Threads, l \in Locks :
          LeavesWith(t, l) =>
             /\ pc[t] \in {"idle", "unwind"}
             /\ pc'[t] = pc[t] /\ ret'[t] = ret[t]
             /\ lock[l] = t /\ lock'[l] = NoThread
             /\ ~InList(held'[t], l)
             /\ (/\ frames'[t] = <<>>
                 /\ \A h \in Locks : Owns(t, h) => InWith(t, h))
                   => /\ held'[t] = <<>>
                      /\ \A h \in Locks : lock'[h] # t]_vars

\* A LockOrderingError raised by a nested acquisition is still in flight
\* and has left every block of the thread: the thread owns no lock and its
\* list is empty.
C14_Witness ==
    \E t \in Threads :
        /\ pc[t] = "unwind" /\ ret[t] = "LockOrderingError"
        /\ frames[t] = <<>>
        /\ held[t] = <<>>
        /\ \A l \in Locks : lock[l] # t

\* C15: in a thread that nests its validation scopes, every step leaves the
\* flag equal to the `enabled` of the innermost open scope; a scope saves on
\* entry the value the flag had, which for a nested scope is the `enabled`
\* of the enclosing one; the step that leaves a scope, with or without an
\* exception in flight, sets the flag to that saved value; and no step that
\* opens or closes no scope changes the flag.
C15_ScopeSetsAndRestores ==
    [][LET before == Scopes(Main)
           after == Scopes(Main)'
       IN /\ after # <<>> => validation' = Top(after).enabled
          /\ Len(after) = Len(before) + 1 => Top(after).old = validation
          /\ Len(after) = Len(before) - 1 =>
                /\ validation' = Top(before).old
                /\ pc'[Main] = pc[Main]
          /\ \A i \in 2..Len(after) : after[i].old = after[i - 1].enabled
          /\ after = before => validation' = validation]_vars

\* Inside a scope that disables validation a nested scope enabled it, an
\* out-of-order acquisition raised, and the error has left the lock's block
\* and the inner scope: the flag is off again, the outer scope still open.
C15_Witness ==
    /\ pc[Main] = "unwind" /\ ret[Main] = "LockOrderingError"
    /\ frames[Main] = <<ScopeFrame(FALSE, TRUE)>>
    /\ validation = FALSE

\* C16: a step taken while validation is disabled raises no
\* LockOrderingError, whatever the thread holds and asks for, and changes no
\* held-lock list; and in every state where validation is disabled
\* get_held_locks() of every thread is empty, whatever locks it owns.
C16_DisabledNeverRaisesNorTracks ==
    [][/\ ~validation =>
             /\ held' = held
             /\ \A t \in Threads :
                   ~(pc[t] = "idle" /\ pc'[t] = "unwind"
                        /\ ret'[t] = "LockOrderingError")
       /\ ~validation' => \A t \in Threads : GetHeldLocks(t)' = <<>>]_vars

\* With validation disabled by an inner scope, a thread inside the encoder
\* block (entered, and tracked, while validation was enabled) has entered
\* the lexical block: it owns both locks, in the forbidden order, and
\* get_held_locks() is empty.
C16_Witness ==
    /\ ~validation
    /\ pc[Main] = "idle" /\ ret[Main] = "true"
    /\ Owns(Main, "_onnx_session_lock") /\ Owns(Main, "_lexical_model_lock")
    /\ held[Main] = <<"_onnx_session_lock">>
    /\ Top(frames[Main]) = WithFrame("_lexical_model_lock")
    /\ GetHeldLocks(Main) = <<>>

\* C17: every lock in a thread's held-lock list is owned by that thread, so
\* get_held_locks() of one thread never shows a lock another thread holds;
\* and acquire() by a thread that itself owns no lock of greater priority
\* than the requested one passes validation whatever locks of greater
\* priority the other threads own.
C17_TrackingIsPerThread ==
    [][/\ \A b \in Threads : \A i \in DOMAIN GetHeldLocks(b)' :
             lock'[GetHeldLocks(b)'[i][1]] = b
       /\ \A a, b \in Threads : \A l \in Locks, how \in Hows :
             (/\ a # b
              /\ AcquireCall(b, l, how)
              /\ \E h \in Locks : Owns(a, h) /\ Order(h) > Order(l)
              /\ ~\E h \in Locks : Owns(b, h) /\ Order(h) > Order(l))
             => (pc'[b] = "acq_take" /\ ret'[b] # "LockOrderingError")]_vars

\* With validation enabled one thread holds the encoder lock and another
\* has passed validation for, and taken, the lexical lock: each list shows
\* the thread's own lock alone.
C17_Witness ==
    \E a, b \in Threads :
        /\ a # b
        /\ validation
        /\ GetHeldLocks(a) = << <<"_onnx_session_lock", 3>> >>
        /\ GetHeldLocks(b) = << <<"_lexical_model_lock", 1>> >>
        /\ Owns(a, "_onnx_session_lock") /\ Owns(b, "_lexical_model_lock")
        /\ ret[b] = "true"

\* C18: an acquire() called with blocking=False or a timeout that has passed
\* the ordering check and finds the lock's primitive held (by another
\* thread) can always complete, and completes by returning false: it raises
\* nothing, the primitive keeps its owner and no held-lock list changes.
C18_BoundedAcquireReturnsFalse ==
    [][\A t \in Threads :
          (/\ pc[t] = "acq_take"
           /\ pending[t].how = "try"
           /\ lock[pending[t].lock] # NoThread)
          => /\ ENABLED AcquireTake(t)
             /\ pc'[t] # pc[t] =>
                   /\ pc'[t] = "idle"
                   /\ ret'[t] = "false"
                   /\ lock' = lock
                   /\ held' = held]_vars

\* A thread holding the lexical lock asked for the classifier lock with a
\* bound while another thread held it, and was told false: it owns the
\* lexical lock alone and its list is as before.
C18_Witness ==
    \E a, b \in Threads :
        /\ a # b
        /\ validation
        /\ Owns(a, "_prosodic_model_lock")
        /\ pc[b] = "idle" /\ ret[b] = "false"
        /\ held[b] = <<"_lexical_model_lock">>
        /\ Owns(b, "_lexical_model_lock")

\* Thread t is inside a call of a load function.
InCall(t) == pc[t] \notin {"idle", "holding"}

\* C19: in no reachable state are all the threads that are inside a load
\* function unable to take a step while no thread that holds a lock directly
\* is left to release it; and, threads being scheduled fairly, every call of
\* a load function returns.
C19_NoDeadlockAndReturns ==
    /\ [](\A t \in Threads :
             InCall(t) => \E u \in Threads : pc[u] # "idle" /\ ENABLED Step(u))
    /\ \A t \in Threads : InCall(t) ~> (pc[t] = "idle")

\* One thread is inside the encoder load that load_prosodic_models started,
\* holding the classifier and the encoder lock, while another, which called
\* load_onnx_model directly, waits for the encoder lock.
C19_Witness ==
    \E a, b \in Threads :
        /\ a # b
        /\ op[a] = "prosodic" /\ pc[a] = "onnx_create"
        /\ lock["_prosodic_model_lock"] = a /\ lock["_onnx_session_lock"] = a
        /\ op[b] = "onnx" /\ pc[b] = "onnx_acquire"
        /\ ~ENABLED Step(b)


(* The slot a facade call of thread t needs *)
Needed(t) ==
    IF request[t].fn = "lexical_predict" THEN lexical_model ELSE prosodic_model

\* Thread t's facade call comes back to its caller in this step
Completes(t) ==
    pc[t] \in {"rejected", "predict", "predicted"} /\ pc'[t] = "idle"

\* The load function of t's facade call has returned without a usable model
LoadFailed(t) == pc[t] = "predict" /\ ~(ret[t] = "true" /\ Needed(t) # None)

\* Inputs the checks of a facade function turn down
Malformed == {"nonstring", "blank", "notarray", "badshape", "unconvertible"}

\* This step is t's facade call turning its input down
InputRejected(t) ==
    \/ pc[t] = "rejected"
    \/ \E input \in Inputs(request[t].fn) \cap Malformed : PredictInvoke(t, input)

\* predict_proba of t's facade call raised, or returned what the output
\* contract does not allow
OutputFailed(t) ==
    /\ pc[t] = "predicted"
    /\ LET o == request[t].outcome
       IN o.kind # "array" \/ o.shape # <<1, 2>> \/ o.exc # "none" \/ o.nan
             \/ o.tenths < 0 \/ o.tenths > 10

\* C20: a call of lexical_predict or prosodic_predict never lets an exception
\* out and comes back with a (score, is_real) pair; when the model could not
\* be loaded, the input was turned down, or predict_proba raised or broke the
\* output contract, the pair is exactly (0.5, False).
C20_FacadeNeverRaisesAndFallsBack ==
    [][\A t \in Threads :
          Completes(t) =>
             /\ answer'[t].returned /\ ~answer'[t].raised
             /\ answer'[t].tenths \in Int /\ answer'[t].is_real \in BOOLEAN
             /\ (LoadFailed(t) \/ InputRejected(t) \/ OutputFailed(t))
                   => answer'[t] = Fallback]_vars

\* The one facade call so far was lexical_predict, found no valid model file
\* and came back with (0.5, False)
C20_Witness ==
    \E t \in Threads :
       /\ pc[t] = "idle" /\ ncalls = 1
       /\ answer[t] = Fallback
       /\ ~clean["lexical"] /\ lexical_model = None

(* What predict_proba must have returned for a real prediction: a matrix
   of shape exactly (1, 2) whose class-1 entry is a number of [0, 1] *)
WithinContract(o) ==
    /\ o.kind = "array" /\ o.shape = <<1, 2>>
    /\ o.exc = "none" /\ ~o.nan
    /\ 0 <= o.tenths /\ o.tenths <= 10

\* C21: a facade call comes back with is_real = true only from a
\* predict_proba that returned a (1, 2) matrix whose class-1 entry lies in
\* [0, 1], and the score is that entry; every other model output gives
\* (0.5, False); so every returned score lies in [0, 1] and is_real = false
\* comes with score 0.5.
C21_RealOnlyWithinContract ==
    [][\A t \in Threads :
          Completes(t) =>
             /\ answer'[t].is_real =>
                   /\ pc[t] = "predicted"
                   /\ WithinContract(request[t].outcome)
                   /\ answer'[t].tenths = request[t].outcome.tenths
             /\ (pc[t] = "predicted" /\ ~WithinContract(request[t].outcome))
                   => answer'[t] = Fallback
             /\ 0 <= answer'[t].tenths /\ answer'[t].tenths <= 10
             /\ ~answer'[t].is_real => answer'[t].tenths = 5]_vars

\* One thread's call came back with the model's score 1.0 as a real
\* prediction, the other's with score 0.0
C21_Witness ==
    \E t, u \in Threads :
       /\ pc[t] = "idle" /\ answer[t] = Result(10, TRUE)
       /\ pc[u] = "idle" /\ answer[u] = Result(0, TRUE)

(* Embeddings that are not an array of a number dtype of shape (768,) *)
NotNumeric == {"notarray", "badshape", "coercible", "unconvertible"}

\* The step of t that looks at an input of the set S turns it down: it goes
\* back to the caller with (0.5, False) and predict_proba was not called
TurnsDown(t, S) ==
    /\ (pc[t] = "rejected" /\ request[t].input \in S /\ PredictReject(t))
          => (~invoked'[t] /\ answer'[t] = Fallback)
    /\ \A input \in Inputs(request[t].fn) \cap S :
          (PredictInvoke(t, input) /\ ret[t] = "true" /\ Needed(t) # None)
             => (pc'[t] = "idle" /\ ~invoked'[t] /\ answer'[t] = Fallback)

\* C22 as stated: a text that is no str or is empty once stripped, and an
\* embedding that is not a numeric array of shape (768,), never reach
\* predict_proba, and the call returns (0.5, False).
C22_NotNumericNeverInvoked ==
    [][\A t \in Threads :
          TurnsDown(t, {"nonstring", "blank"} \cup NotNumeric)]_vars

\* C22: a text that is no str or is empty once stripped, and an embedding
\* that is no ndarray, has another shape than (768,) or has elements that
\* astype(np.float32) raises on, never reach predict_proba, and the call
\* returns (0.5, False); predict_proba is called only on a text and on a
\* (768,) array that is float32 or was converted to it.
C22_MalformedNeverInvoked ==
    [][\A t \in Threads :
          /\ TurnsDown(t, Malformed)
          /\ (~invoked[t] /\ invoked'[t])
                => request'[t].input \in {"text", "float32", "number", "coercible"}]_vars

\* The one facade call so far loaded the lexical model, found the text empty
\* once stripped and came back with (0.5, False) without calling
\* predict_proba
C22_Witness ==
    \E t \in Threads :
       /\ pc[t] = "idle" /\ ncalls = 1
       /\ lexical_model # None /\ loads["prosodic"] = 0
       /\ ~invoked[t] /\ answer[t] = Fallback

(* Positions of a thread inside health_check *)
HealthPcs == {"health_lexical", "health_prosodic", "health_onnx", "health_done"}

\* C23: every step of health_check leaves the three slots, the locks, the
\* held-lock lists and the counts of load bodies and slot writes as they
\* are and enters no load function; each of its three reads puts into the
\* report whether the slot it reads is non-null at that moment.
C23_HealthReadsWithoutEffect ==
    [][\A t \in Threads :
          HealthStep(t) =>
             /\ UNCHANGED <<slots, locking, loads, publishes, clean, config>>
             /\ pc'[t] \in HealthPcs \cup {"idle"} /\ op'[t] = op[t]
             /\ \A u \in Threads \ {t} : pc'[u] = pc[u]
             /\ HealthLexical(t) =>
                   health'[t].lexical = (lexical_model' # None)
             /\ HealthProsodic(t) =>
                   health'[t].prosodic = (prosodic_model' # None)
             /\ HealthOnnx(t) =>
                   health'[t].wav2vec_onnx = (onnx_session' # None)]_vars

\* A health check has read all three slots after a load of the lexical
\* model: its report has lexical true, prosodic and encoder false
C23_Witness ==
    \E t \in Threads :
       /\ pc[t] = "health_done"
       /\ health[t] = [lexical |-> TRUE, prosodic |-> FALSE, wav2vec_onnx |-> FALSE]
       /\ lexical_model # None /\ loads["lexical"] = 1

(* C30: find_class hands the lookup to the default resolution exactly when
   the name is not in BLOCKED_CLASS_NAMES and the module is in
   TRUSTED_MODULES; a blocked name is turned down with the 'Untrusted module
   blocked' error whatever its module, an allow-listed one included. *)
C30_DenyListBeforeAllowList ==
    call.fn = "find_class" =>
       /\ call.out.delegated <=>
             (call.name \notin BLOCKED_CLASS_NAMES /\ call.module \in TRUSTED_MODULES)
       /\ call.out.delegated => call.out = SuperFindClass(call.module, call.name)
       /\ ~call.out.delegated =>
             /\ call.out.exc = "UnpicklingError"
             /\ call.out.message = <<"Untrusted module blocked", call.module, call.name>>

\* find_class("builtins", "eval") raised the error without a lookup
C30_Witness ==
    /\ call.fn = "find_class"
    /\ call.module = "builtins" /\ call.name = "eval"
    /\ call.out.exc = "UnpicklingError" /\ ~call.out.delegated

(* A reference find_class resolves: its name is not blocked and its module
   is allow-listed *)
Allowed(r) == r[2] \notin BLOCKED_CLASS_NAMES /\ r[1] \in TRUSTED_MODULES

\* The place of the first reference of the stream that is not allowed
FirstDisallowed(refs) ==
    CHOOSE i \in DOMAIN refs :
       ~Allowed(refs[i]) /\ \A j \in 1..(i - 1) : Allowed(refs[j])

\* C24: when a stream holds a reference that is not allowed, load() ends at
\* the first such reference with the 'Untrusted module blocked' error naming
\* it, resolves nothing after it and returns no object; the load function
\* around it returns false and leaves its slot null.
C24_UntrustedAbortsLoad ==
    (call.fn = "load" /\ \E i \in DOMAIN call.content.refs :
                            ~Allowed(call.content.refs[i])) =>
       LET refs == call.content.refs
           i == FirstDisallowed(refs)
       IN /\ call.out.exc = "UnpicklingError"
          /\ call.out.message = <<"Untrusted module blocked", refs[i][1], refs[i][2]>>
          /\ call.out.resolved = i - 1
          /\ call.out.object = None
          /\ call.load_model = [ret |-> "false", slot |-> None]

\* A stream that builds a Pipeline, then refers to os.system, then to an
\* allowed class: the load ended at the second reference
C24_Witness ==
    /\ call.fn = "load"
    /\ call.content.refs = << <<"sklearn.pipeline", "Pipeline">>, <<"os", "system">>,
                              <<"sklearn.svm", "LinearSVC">> >>
    /\ call.out.exc = "UnpicklingError" /\ call.out.resolved = 1
    /\ call.load_model.ret = "false"

(* The call was a load() of a whole stream of allowed references only *)
LoadedAllowedStream ==
    /\ call.fn = "load"
    /\ call.content.complete
    /\ \A i \in DOMAIN call.content.refs : Allowed(call.content.refs[i])

\* C25 as stated: for every stream that encodes only allow-listed types,
\* restricted deserialization succeeds and validate_sklearn_model accepts
\* the object.
C25_AllowedStreamIsAccepted ==
    LoadedAllowedStream =>
       /\ call.out.exc = "none"
       /\ ValidateSklearnModel(call.out.object) = "true"

\* C25: for every whole stream of allowed references, restricted
\* deserialization succeeds and returns an object; validate_sklearn_model
\* accepts it exactly when it exposes both predict_proba and predict and
\* has no malformed `steps`, and only then does the load function return
\* true and fill its slot.
C25_AllowedStreamLoads ==
    LoadedAllowedStream =>
       LET m == call.out.object
           accepted == /\ HasAttr(m, "predict_proba") /\ HasAttr(m, "predict")
                       /\ m.kind # "badsteps"
       IN /\ call.out.exc = "none" /\ m # None
          /\ call.out.resolved = Len(call.content.refs)
          /\ (ValidateSklearnModel(m) = "true") <=> accepted
          /\ (call.load_model.ret = "true") <=> accepted
          /\ (call.load_model.slot # None) <=> accepted

\* A stream of a Pipeline holding a dict was loaded and accepted
C25_Witness ==
    /\ LoadedAllowedStream
    /\ call.content.refs = << <<"sklearn.pipeline", "Pipeline">>, <<"builtins", "dict">> >>
    /\ call.content.steps = "pairs"
    /\ call.out.exc = "none"
    /\ call.load_model.ret = "true" /\ call.load_model.slot.validated

(* A file made by tempfile.NamedTemporaryFile, given by its absolute path *)
TempPath == [abs |-> TRUE, segs |-> <<"tmp", "m.pkl">>]

\* What the claim expects of a load: the 'Untrusted module blocked' error for
\* a stream with a reference that is not allowed, the object otherwise
BlocksOrReturns(file, out) ==
    IF \E i \in DOMAIN file.refs : ~Allowed(file.refs[i])
    THEN /\ out.exc = "UnpicklingError"
         /\ out.message[1] = "Untrusted module blocked"
    ELSE /\ out.exc = "none"
         /\ out.object = NewObject(ObjectKind(file), 0)

HasParentSegment(p) == \E i \in DOMAIN p.segs : p.segs[i] = ".."

\* The path is absolute and its symlink-resolved location is not the model
\* directory nor below it, segment by segment
ResolvesOutside(p) ==
    /\ p.abs
    /\ LET resolved == Realpath(<<>>, p.segs) IN
       ~(Len(resolved) >= Len(ExpectedDir)
         /\ SubSeq(resolved, 1, Len(ExpectedDir)) = ExpectedDir)

C28_ValidatorNeverRaises ==
    call.fn = "validate_sklearn_model" =>
       /\ call.out # "raise"
       /\ (call.out = "true") <=>
             {"predict_proba", "predict"} \subseteq Attrs(call.kind)

\* The try of the prosodic endpoint ended on model unavailability or on a
\* decoding failure: AudioDecodingError or ModelUnavailableError left it, or
\* prosodic_predict ran without a loaded model
Degraded(c) ==
    \/ c.body.exc \in {"AudioDecodingError", "ModelUnavailableError"}
    \/ c.body.predicted /\ ~c.loaded

\* The caller's input was at fault: the request was refused before the try,
\* the waveform was too short, or AudioValidationError left the try
CallerInput(c) ==
    \/ c.upload # "audio"
    \/ c.body.short
    \/ c.body.exc = "AudioValidationError"

\* C29: in the prosodic HTTP handler AudioDecodingError, ModelUnavailableError
\* and a failed model load inside prosodic_predict give a 200 response with
\* value 0.5 and reliable false, and a 400 response is given for a problem
\* of the caller's input only.
C29_UnavailabilityIsNoHttpError ==
    call.fn = "prosodic_detection" =>
        /\ call.upload = "audio" /\ Degraded(call)
              => call.out = Response(200, 5, FALSE)
        /\ call.out.status = 400 => CallerInput(call) /\ ~Degraded(call)

\* The ONNX session failed on an upload that decoded, and the answer is the
\* neutral score
C29_Witness ==
    /\ call.fn = "prosodic_detection"
    /\ call.upload = "audio"
    /\ call.body.exc = "ModelUnavailableError"
    /\ call.onnx = "raises"
    /\ call.out = Response(200, 5, FALSE)

\* The lock a load function is about to acquire at each of its `with` lines
LockAt(p) ==
    CASE p = "lex_acquire" -> "_lexical_model_lock"
      [] p = "pro_acquire" -> "_prosodic_model_lock"
      [] p = "onnx_acquire" -> "_onnx_session_lock"

AcquirePcs == {"lex_acquire", "pro_acquire", "onnx_acquire"}

\* C31: on its slow path load_prosodic_models takes the classifier lock and,
\* still holding it, the encoder lock inside load_onnx_model; a thread that
\* takes a lock holds only locks of lower priority at that moment; and no
\* `with` line of a load function called by a thread that held no lock has
\* its ordering validation raise.
C31_LoadsFollowLockOrder ==
    [][\A t \in Threads :
          /\ pc[t] \in AcquirePcs => ~ValidateLockOrderRaises(t, LockAt(pc[t]))
          /\ \A l \in Locks :
                (lock[l] # t /\ lock'[l] = t) =>
                    /\ \A h \in Locks : lock[h] = t => Order(h) < Order(l)
                    /\ (op'[t] = "prosodic" /\ l = "_onnx_session_lock") =>
                          /\ pc[t] = "onnx_acquire"
                          /\ lock["_prosodic_model_lock"] = t]_vars

\* With validation on, a thread inside load_prosodic_models holds the
\* classifier lock and, nested in it, the encoder lock.
C31_Witness ==
    \E t \in Threads :
        /\ validation
        /\ op[t] = "prosodic"
        /\ pc[t] = "onnx_create"
        /\ lock["_prosodic_model_lock"] = t
        /\ lock["_onnx_session_lock"] = t
        /\ held[t] = <<"_prosodic_model_lock", "_onnx_session_lock">>

\* Thread t takes a step that assigns to the slot of resource r: the
\* assignments of lines 624, 687, 694, 731 and 765
Writes(t, r) ==
    CASE r = "lexical" -> LexPublish(t)
      [] r = "onnx" -> OnnxPublish(t) \/ OnnxExcept(t)
      [] r = "prosodic" -> ProPublish(t) \/ (pc[t] = "pro_check2" /\ ProCheck(t))

\* The ordered lock that guards the slot of resource r
Guard(r) ==
    CASE r = "lexical" -> "_lexical_model_lock"
      [] r = "onnx" -> "_onnx_session_lock"
      [] r = "prosodic" -> "_prosodic_model_lock"

\* C33: every step that assigns to a resource slot is taken by a thread that
\* holds that slot's own ordered lock, and a slot changes in no other step.
C33_SlotWrittenUnderItsLock ==
    [][\A r \in Resources :
          /\ \A t \in Threads : Writes(t, r) => lock[Guard(r)] = t
          /\ Slot(r)' # Slot(r) => \E t \in Threads : Writes(t, r)]_vars

\* The classifier has just been assigned by the thread that holds the
\* classifier lock, while another thread is inside a load function.
C33_Witness ==
    \E t \in Threads : \E u \in Threads \ {t} :
        /\ pc[t] = "pro_exit"
        /\ result[t] = "true"
        /\ prosodic_model # None
        /\ publishes["prosodic"] = 1
        /\ lock["_prosodic_model_lock"] = t
        /\ pc[u] \notin {"idle", "holding"}

\* The OrderedLocks whose underlying primitive thread t holds
Primitives(t) == {l \in Locks : lock[l] = t}

\* C34: a thread's held-lock list names the OrderedLocks whose primitive the
\* thread holds, under any interleaving of acquire, release and changes of
\* the validation flag; stated for the thread that has released every lock
\* it acquired: its list is empty.
C34_ReleasedAllMeansEmptyList ==
    \A t \in Threads :
        (pc[t] = "idle" /\ Primitives(t) = {}) => held[t] = <<>>

\* C35: when the validation scopes of several threads overlap in time, each
\* thread inside a scope of its own finds the flag at the setting its
\* innermost scope requested, and once every scope has exited the flag has
\* the value it had before the first scope was entered.
C35_OverlappingScopesKeepSetting ==
    /\ \A t \in Threads :
          Scopes(t) # <<>> => validation = Top(Scopes(t)).enabled
    /\ (\A t \in Threads : Scopes(t) = <<>>) => validation = ~production

\* The positions of load_onnx_model from the re-check under the encoder lock
\* to the assignments of the slot
OnnxBody == {"onnx_check", "onnx_exists", "onnx_create", "onnx_publish",
             "onnx_except"}

\* Thread t is between the locked re-check and the slot write of resource
\* r; the load body of the classifier has that of the encoder inside it.
InBody(t, r) ==
    CASE r = "lexical" ->
             pc[t] \in {"lex_check", "lex_exists", "lex_load", "lex_validate",
                        "lex_publish"}
      [] r = "onnx" -> pc[t] \in OnnxBody
      [] r = "prosodic" ->
             \/ pc[t] \in {"pro_check1", "pro_check2", "pro_verify",
                           "pro_exists", "pro_load", "pro_validate",
                           "pro_publish"}
             \/ op[t] = "prosodic" /\ pc[t] \in
                   OnnxBody \cup {"onnx_fast", "onnx_acquire", "onnx_exit"}

\* C36: at any time at most one thread is between the locked re-check and
\* the slot write of a resource, whether it came to the encoder load body
\* through load_prosodic_models or through load_onnx_model called directly.
C36_OneThreadPerLoadBody ==
    \A r \in Resources : \A t \in Threads : \A u \in Threads :
        (InBody(t, r) /\ InBody(u, r)) => t = u

\* One thread is in the encoder load body inside load_prosodic_models while
\* another, which called load_onnx_model directly, waits for the encoder lock.
C36_Witness ==
    \E t \in Threads : \E u \in Threads :
        /\ op[t] = "prosodic" /\ pc[t] = "onnx_create"
        /\ op[u] = "onnx" /\ pc[u] = "onnx_acquire"
        /\ lock["_onnx_session_lock"] = t

\* The held-lock list of a thread that holds the locks of s, taken in that
\* order
Tracked(s) == IF validation THEN s ELSE <<>>

\* C37: a load function that has returned, with true or false, has released
\* every lock it took and left the held-lock list of its thread as it was at
\* the call: empty for the call a thread makes, and holding the classifier
\* lock alone for load_onnx_model called inside load_prosodic_models.
C37_LoadsLeakNoLock ==
    \A t \in Threads :
        /\ pc[t] = "idle" => Primitives(t) = {} /\ held[t] = <<>>
        /\ pc[t] \in {"pro_verify", "pro_exists", "pro_load", "pro_validate",
                      "pro_publish", "pro_exit"} =>
              /\ Primitives(t) = {"_prosodic_model_lock"}
              /\ held[t] = Tracked(<<"_prosodic_model_lock">>)

\* With validation on, load_prosodic_models has returned false from inside
\* both with-blocks' reach: the encoder was loaded under the nested lock, the
\* classifier stage failed, and the thread holds nothing.
C37_Witness ==
    \E t \in Threads :
        /\ validation
        /\ Returned(t, "prosodic")
        /\ ret[t] = "false"
        /\ onnx_session # None
        /\ loads["prosodic"] > 0
        /\ Primitives(t) = {}
        /\ held[t] = <<>>

\* Thread t waits in a blocking acquire() for a primitive it holds itself
WaitsForItself(t) ==
    /\ pc[t] = "acq_take"
    /\ pending[t].how # "try"
    /\ lock[pending[t].lock] = t

\* C38: the ordering validation turns down a lock only when the thread holds
\* one of strictly greater priority. acquire() of a lock whose priority
\* equals that of a held lock, the held lock itself included, passes the
\* validation, and a blocking acquire() of a lock the thread holds goes on
\* to the underlying primitive and waits there: it neither raises nor
\* returns.
C38_EqualPriorityPassesValidation ==
    [][\A t \in Threads :
          /\ \A l \in Locks : \A how \in Hows :
                AcquireCall(t, l, how) =>
                    /\ pc'[t] = "unwind" <=>
                          /\ validation
                          /\ \E h \in Locks : InList(held[t], h) /\ Order(h) > Order(l)
                    /\ (\A h \in Locks : InList(held[t], h) => Order(h) <= Order(l))
                          => pc'[t] = "acq_take" /\ ret'[t] = "none"
          /\ WaitsForItself(t) => WaitsForItself(t)']_vars

\* With validation on, a thread that holds a lock and has it in its list has
\* called acquire() on it again, blocking, and is past the validation.
C38_Witness ==
    \E t \in Threads :
        /\ validation
        /\ WaitsForItself(t)
        /\ pending[t].how = "block"
        /\ held[t] = <<pending[t].lock>>

\* Thread t, inside load_prosodic_models with the encoder loaded, takes the
\* step in which the classifier stage fails: the file is missing, the
\* stream is turned down or broken, or the validator says no or raises
ClassifierStageFails(t) ==
    /\ pc[t] \in {"pro_exists", "pro_load", "pro_validate"}
    /\ pc'[t] = "pro_exit"

\* C39: when load_prosodic_models fails at the classifier stage after the
\* encoder is loaded, it returns false with the encoder session still in
\* its slot and the classifier slot null; from then on load_onnx_model called
\* inside load_prosodic_models returns true through its fast path, without
\* a lock and without running the encoder load body again, and the call goes
\* on to the classifier alone.
C39_EncoderKeptClassifierRetried ==
    [][\A t \in Threads :
          /\ ClassifierStageFails(t) =>
                /\ result'[t] = "false"
                /\ onnx_session' # None /\ onnx_session' = onnx_session
                /\ prosodic_model' = None
          /\ (pc[t] = "pro_exit" /\ result[t] = "false" /\ ProExit(t)) =>
                /\ ret'[t] = "false"
                /\ onnx_session' = onnx_session
                /\ prosodic_model' = None
          /\ (op[t] = "prosodic" /\ onnx_session # None /\ OnnxFast(t)) =>
                /\ pc'[t] = "pro_verify"
                /\ result'[t] = "true"
                /\ UNCHANGED <<slots, locking, loads, publishes>>
          /\ onnx_session # None => loads'["onnx"] = loads["onnx"]]_vars

\* The second of two calls of load_prosodic_models: the first loaded the
\* encoder and failed at the classifier; this one is at the classifier load
\* again and the encoder load body has run once.
C39_Witness ==
    \E t \in Threads :
        /\ ncalls = 2
        /\ op[t] = "prosodic"
        /\ pc[t] = "pro_load"
        /\ loads["prosodic"] = 1
        /\ loads["onnx"] = 1
        /\ onnx_session # None
        /\ prosodic_model = None
        /\ ~clean["prosodic"]

====
